---- MODULE Spec2Model ----
(***************************************************************************)
(* Audio playback engine of DoraROSBridge: the Packet Queue filled by the  *)
(* audio sink's event loop or the receiver's appsink callback, the         *)
(* receiver's pending queue drained on ticks, and the cpal output callback *)
(* of run_audio_playback_thread (refill, underrun rule, emission, trim).   *)
(*                                                                         *)
(* Sample values.  A ring buffer entry is the f32 sample times             *)
(* 2 * 32768, kept as an integer; the rates of the model make the          *)
(* resampling ratio a power of two and the samples at most 8 bits wide, so *)
(* every f32 operation of the code is exact on them.  Each ring entry and  *)
(* each output slot also carries a history tag (seq / src) recording which *)
(* append produced it; the code has no such field.                         *)
(***************************************************************************)
EXTENDS Integers, Sequences, FiniteSets, TLC

\* ---------------------------------------------------------------- bounds
MaxEvents == 4         \* audio packets, ticks and output callbacks of a run
MaxFrames == 3         \* largest frames_needed the host asks for

\* ------------------------------------------------------ program constants
SinkQueueMax == 100        \* dora-audio-sink: while guard.len() > 100
PlaybackQueueMax == 10     \* receiver: while guard.len() > 10
PendingQueueMax == 200     \* receiver: while guard.len() > 200
RingSeconds == 5           \* max_buffer_samples = device_rate_hz * 5
PrefillDivisor == 10       \* min_prefill_frames = device_rate_hz / 10
SampleDivisor == 32768     \* sample as f32 / 32768.0
I16Scale == 32767          \* clamp(-1.0, 1.0) * 32767.0

\* Host and source rates of the model (Hz), and the host's output configs
\* (config.channels, supported.sample_format()).
DeviceRates == {20}
InputRates == {10, 20, 40}
HostConfigs == {[channels |-> 1, format |-> "F32"],
                [channels |-> 2, format |-> "I16"],
                [channels |-> 3, format |-> "U8"],
                [channels |-> 2, format |-> "U16"]}

\* ---------------------------------------------------------------- helpers
Min(a, b) == IF a < b THEN a ELSE b
Max(a, b) == IF a > b THEN a ELSE b

\* Rust integer division and `as` casts truncate toward zero.
TruncDiv(n, d) == IF n >= 0 THEN n \div d ELSE 0 - ((0 - n) \div d)

Drop(s, n) == SubSeq(s, n + 1, Len(s))
Take(s, n) == SubSeq(s, 1, n)

\* The two little-endian bytes of a 16-bit sample.
SampleBytes(v) == <<v % 256, (v \div 256) % 256>>

\* Mutant of I16FromLe: offset binary, where the zero bytes are the minimum.
I16FromLeOffset(lo, hi) == lo + 256 * hi - SampleDivisor

\* i16::from_le_bytes([lo, hi])
I16FromLe(lo, hi) ==
    LET u == lo + 256 * hi
    IN IF u >= SampleDivisor THEN u - 2 * SampleDivisor ELSE u

\* Mutant of DecodeS16Mono: the two bytes of a sample are read high byte
\* first.
DecodeS16MonoBigEndian(bytes) ==
    [k \in 1..(Len(bytes) \div 2) |->
        2 * I16FromLe(bytes[2 * k], bytes[2 * k - 1])]

\* audio_data.chunks_exact(2).map(|c| i16::from_le_bytes(c) as f32 / 32768.0):
\* one sample per complete 2-byte chunk, a trailing byte is ignored.  The
\* result is in ring units (f32 value * 65536), so s / 32768.0 is 2 * s.
DecodeS16Mono(bytes) ==
    [k \in 1..(Len(bytes) \div 2) |->
        2 * I16FromLe(bytes[2 * k - 1], bytes[2 * k])]

\* The one element of a set of one: Only({f(x) : x \in {e}}) is f(e) with e
\* worked out once, however often f uses it.
Only(S) == CHOOSE x \in S : TRUE

\* The number of binary digits of x (0 for 0), x below 2^31.
BitLen(x) == Cardinality({k \in 0..30 : 2 ^ k <= x})

\* Long division: q and r are quotient and remainder so far, `frac` the
\* number of digits after the binary point; digits are added until q has 25.
RECURSIVE DivideTo25(_, _, _, _)
DivideTo25(q, r, d, frac) ==
    IF q >= 2 ^ 24 THEN [q |-> q, r |-> r, frac |-> frac]
    ELSE Only({DivideTo25(s[1], s[2], s[3], s[4]) :
                 s \in {IF 2 * r >= d THEN <<2 * q + 1, 2 * r - d, d, frac + 1>>
                        ELSE <<2 * q, 2 * r, d, frac + 1>>}})

\* device_rate_hz as f32 / input_sample_rate_hz as f32: the f32 nearest to
\* rd / rs (ties to even), as man / 2^frac with 2^23 <= man <= 2^24.  Both
\* rates are below 2^24, so the casts are exact.
F32Ratio(rs, rd) ==
    Only({LET man == d.q \div 2
              up == d.q % 2 = 1 /\ (d.r > 0 \/ man % 2 = 1)
          IN [man |-> IF up THEN man + 1 ELSE man, frac |-> d.frac - 1] :
            d \in {DivideTo25(rd \div rs, rd % rs, rs, 0)}})

\* The 36-digit product c * 4096 + low cut to 24 digits (ties to even),
\* t being the number of digits to drop: q * 2^shift.
F32Cut(c, low, t) ==
    LET q == IF t <= 0 THEN c * 4096 + low
             ELSE IF t <= 12 THEN c * 2 ^ (12 - t) + low \div 2 ^ t
             ELSE c \div 2 ^ (t - 12)
        r == IF t <= 0 THEN 0
             ELSE IF t <= 12 THEN low % 2 ^ t
             ELSE (c % 2 ^ (t - 12)) * 4096 + low
        half == IF t <= 0 THEN 1 ELSE 2 ^ (t - 1)
        up == t > 0 /\ (r > half \/ (r = half /\ q % 2 = 1))
    IN [q |-> IF up THEN q + 1 ELSE q, shift |-> IF t <= 0 THEN 0 ELSE t]

\* n as f32 * ratio, the exact product n * man cut to 24 digits (ties to
\* even): q * 2^shift / 2^frac.  The product is taken in two halves so that
\* nothing leaves 32 bits (n below 2^16).
F32Times(n, ratio) ==
    Only({Only({[q |-> cut.q, shift |-> cut.shift, frac |-> ratio.frac] :
                  cut \in {F32Cut(x[1], x[2], x[3])}}) :
            x \in {Only({<<ab[1] + ab[2] \div 4096, ab[2] % 4096,
                           BitLen(ab[1] + ab[2] \div 4096) - 12>> :
                           ab \in {<<n * (ratio.man \div 4096),
                                     n * (ratio.man % 4096)>>}})}})

\* The f32 value q * 2^shift / 2^frac rounded to an integer, half away
\* from zero.
F32Round(p) ==
    LET u == p.frac - p.shift
    IN IF u <= 0 THEN p.q * 2 ^ (0 - u)
       ELSE IF u > 26 THEN 0
       ELSE (p.q + 2 ^ (u - 1)) \div 2 ^ u

\* (src.len() as f32 * ratio).round() as usize
ResampleLen(n, rs, rd) ==
    IF n = 0 THEN 0
    ELSE Only({Only({F32Round(p) : p \in {F32Times(n, ratio)}}) :
                 ratio \in {F32Ratio(rs, rd)}})

\* Mutant of Resample: past the end of the input the resampler reads a
\* zero instead of the last sample.
ResamplePadZero(src, rs, rd) ==
    IF rs = rd THEN src
    ELSE IF src = <<>> THEN <<>>
    ELSE [k \in 1..ResampleLen(Len(src), rs, rd) |->
            LET num == (k - 1) * rs
                i == num \div rd
                fr == num % rd
                s0 == IF i < Len(src) THEN src[i + 1] ELSE 0
                s1 == IF i + 1 < Len(src) THEN src[i + 2] ELSE 0
            IN s0 + ((s1 - s0) * fr) \div rd]

\* Mutant of Resample: the read position never advances.
ResampleHoldFirst(src, rs, rd) ==
    IF src = <<>> THEN <<>>
    ELSE [k \in 1..ResampleLen(Len(src), rs, rd) |-> src[1]]

\* The linear resampler of run_audio_playback_thread.  pos of output k is
\* k / ratio = k * rs / rd; i = floor(pos); frac = pos - i.
Resample(src, rs, rd) ==
    IF rs = rd THEN src
    ELSE IF src = <<>> THEN <<>>
    ELSE [k \in 1..ResampleLen(Len(src), rs, rd) |->
            LET num == (k - 1) * rs
                i == num \div rd
                fr == num % rd
                s0 == IF i < Len(src) THEN src[i + 1] ELSE src[Len(src)]
                s1 == IF i + 1 < Len(src) THEN src[i + 2] ELSE s0
            IN s0 + ((s1 - s0) * fr) \div rd]

\* Mutants of CapQueue: a cap one too high; a cap that drops the newest.
CapQueueOffByOne(q, max) ==
    IF Len(q) > max + 1 THEN Drop(q, Len(q) - (max + 1)) ELSE q
CapQueueDropNewest(q, max) == IF Len(q) > max THEN Take(q, max) ELSE q

\* while guard.len() > max { guard.pop_front(); }
CapQueue(q, max) == IF Len(q) > max THEN Drop(q, Len(q) - max) ELSE q

\* guard.push_back(p); while guard.len() > max { guard.pop_front(); }
Enqueue(q, p, max) == CapQueue(Append(q, p), max)

\* A usize at or above 2^63 is written as its two's complement (usize::MAX
\* is -1); the channel counts of the model are -1 and a few small ones.
\* if channels <= 1
AtMostOne(channels) == channels \in {0, 1}

\* How often `while idx + channels * width <= input.len()` runs with
\* wrapping arithmetic: for a channel count written as a negative number
\* the wrapped product is above every length, so not once.
FrameCount(len, width, channels) ==
    IF channels < 0 THEN 0 ELSE len \div (width * channels)

\* channels * 2 or channels * 4 leaves the 64 bits of a usize: the formats
\* with a multi-channel loop, for a channel count of 2^63 or more.
MulOverflows(format, channels) ==
    format \in {"S16LE", "F32LE", "S32LE"} /\ channels < 0

\* Mutant of DownmixS16: the first channel of each frame, no average.
DownmixFirstChannel(input, channels) ==
    [j \in 1..(2 * FrameCount(Len(input), 2, channels)) |->
        input[((j + 1) \div 2 - 1) * 2 * channels + 2 - (j % 2)]]

\* S16LE input of `channels` > 1 channels: each complete frame becomes the
\* average (acc / channels, truncating) of its channel samples.
DownmixS16(input, channels) ==
    LET frames == FrameCount(Len(input), 2, channels)
        Samp(f, ch) == I16FromLe(input[(f - 1) * 2 * channels + 2 * ch + 1],
                                 input[(f - 1) * 2 * channels + 2 * ch + 2])
        RECURSIVE Acc(_, _)
        Acc(f, ch) == IF ch < 0 THEN 0 ELSE Samp(f, ch) + Acc(f, ch - 1)
        Avg(f) == Max(0 - SampleDivisor,
                      Min(SampleDivisor - 1, TruncDiv(Acc(f, channels - 1), channels)))
    IN [j \in 1..(2 * frames) |-> SampleBytes(Avg((j + 1) \div 2))[2 - (j % 2)]]

\* out.iter().flat_map(|s| s.to_le_bytes()).collect()
SamplesToBytes(samples) ==
    [j \in 1..(2 * Len(samples)) |->
        SampleBytes(samples[(j + 1) \div 2])[2 - (j % 2)]]

\* The halves of i32::from_le_bytes([b0, b1, b2, b3]): the value is
\* I32High * 65536 + I32Low with I32High signed and 0 <= I32Low < 65536.
I32High(b2, b3) == (IF b3 >= 128 THEN b3 - 256 ELSE b3) * 256 + b2
I32Low(b0, b1) == b0 + 256 * b1

\* ((acc / channels as i64) >> 16) as i32 as i16 for the i64 sum acc of the
\* frame's channel samples.  The sum is kept in halves (high * 65536 + low)
\* so that no intermediate value leaves the 32 bits of the checker's
\* integers: `/` truncates toward zero, `>> 16` rounds down.
AverageS32(input, base, channels) ==
    LET RECURSIVE High(_)
        High(ch) == IF ch < 0 THEN 0
                    ELSE I32High(input[base + 4 * ch + 3], input[base + 4 * ch + 4])
                         + High(ch - 1)
        RECURSIVE Low(_)
        Low(ch) == IF ch < 0 THEN 0
                   ELSE I32Low(input[base + 4 * ch + 1], input[base + 4 * ch + 2])
                        + Low(ch - 1)
        low == Low(channels - 1)
        high == High(channels - 1) + low \div 65536
        rest == low % 65536
        a == high \div channels
        r == high % channels
    IN IF high < 0 /\ 65536 * r + rest > 65535 * channels THEN a + 1 ELSE a

\* The "S32LE" arm: chunks_exact(4) and s32 >> 16 for one channel (or
\* none), the average of each complete frame otherwise.
ConvertS32(input, channels) ==
    IF AtMostOne(channels)
    THEN SamplesToBytes([k \in 1..(Len(input) \div 4) |->
                            I32High(input[4 * k - 1], input[4 * k])])
    ELSE SamplesToBytes([k \in 1..FrameCount(Len(input), 4, channels) |->
                            AverageS32(input, (k - 1) * 4 * channels, channels)])

\* f32::from_le_bytes([b0, b1, b2, b3]) as a record: nan, or the value in
\* units of 2^-16.  The value is exact for the floats the model feeds
\* (multiples of 2^-16 below 2^14 in magnitude); a larger one saturates at
\* 2^28 units and a smaller one is cut toward zero.
F32FromLe(b0, b1, b2, b3) ==
    LET exp == (b3 % 128) * 2 + b2 \div 128
        man == (b2 % 128) * 65536 + b1 * 256 + b0
        mag == IF exp = 0 THEN 0
               ELSE IF exp > 138 THEN 2 ^ 28
               ELSE IF exp >= 134 THEN (2 ^ 23 + man) * 2 ^ (exp - 134)
               ELSE IF exp < 110 THEN 0
               ELSE (2 ^ 23 + man) \div 2 ^ (134 - exp)
    IN [nan |-> exp = 255 /\ man # 0,
        units |-> IF b3 >= 128 THEN 0 - mag ELSE mag]

\* ((acc / channels as f32).clamp(-1.0, 1.0) * 32767.0) as i16 for a sum of
\* acc units: NaN casts to 0, the cast truncates toward zero.  The product
\* is taken in two halves to stay within 32 bits.
F32ToI16(nan, acc, channels) ==
    LET mag == IF acc < 0 THEN 0 - acc ELSE acc
        hi == mag \div 256
        lo == mag % 256
        q == IF mag >= 65536 * channels THEN I16Scale
             ELSE (hi * I16Scale + (lo * I16Scale) \div 256) \div (256 * channels)
    IN IF nan THEN 0 ELSE IF acc < 0 THEN 0 - q ELSE q

\* The frame's channel floats summed: NaN if any is, else the sum in units.
SumF32(input, base, channels) ==
    LET F(ch) == F32FromLe(input[base + 4 * ch + 1], input[base + 4 * ch + 2],
                           input[base + 4 * ch + 3], input[base + 4 * ch + 4])
        RECURSIVE Nan(_)
        Nan(ch) == IF ch < 0 THEN FALSE ELSE F(ch).nan \/ Nan(ch - 1)
        RECURSIVE Acc(_)
        Acc(ch) == IF ch < 0 THEN 0 ELSE F(ch).units + Acc(ch - 1)
    IN [nan |-> Nan(channels - 1), units |-> Acc(channels - 1)]

\* The "F32LE" arm: chunks_exact(4) for one channel (or none), the average
\* of each complete frame otherwise.
ConvertF32(input, channels) ==
    LET n == IF AtMostOne(channels) THEN 1 ELSE channels
    IN SamplesToBytes([k \in 1..FrameCount(Len(input), 4, n) |->
          LET sum == SumF32(input, (k - 1) * 4 * n, n)
          IN F32ToI16(sum.nan, sum.units, n)])

\* to_s16le_mono: "S16LE", "F32LE", "S32LE" and the `_` arm, which every
\* other format string takes ("S8" and "U8" included).  Where a product
\* overflows this is the result of a build without overflow checks.
to_s16le_mono(input, format, channels) ==
    CASE format = "S16LE" ->
           IF AtMostOne(channels) THEN input ELSE DownmixS16(input, channels)
      [] format = "F32LE" -> ConvertF32(input, channels)
      [] format = "S32LE" -> ConvertS32(input, channels)
      [] OTHER -> input

\* ------------------------------------------------------------ model inputs
\* Mutant of OutputPath: an unexpected format gets the integer builder.
OutputPathFallbackInt(fmt) == IF fmt = "F32" THEN "f32" ELSE "i16"

\* cpal::SampleFormat of the host -> the stream builder chosen for it.
OutputPath(fmt) ==
    CASE fmt = "F32" -> "f32"
      [] fmt = "I16" -> "i16"
      [] fmt = "U16" -> "i16"
      [] OTHER -> "f32"

\* Capacity of the playback queue in each program.
QueueMax(dep) == IF dep = "sink" THEN SinkQueueMax ELSE PlaybackQueueMax

\* Packet payloads: empty, one sample and a stray byte, and one decoding to more samples than the largest ring buffer capacity.
LongSamples == RingSeconds * 20 + 3
LongPayload ==
    [j \in 1..(2 * LongSamples) |->
        SampleBytes((((j + 1) \div 2) % 7) * 3 - 9)[2 - (j % 2)]]
Payloads == {<<>>, <<5, 0, 7>>, LongPayload}
SinkFormats == {"S16LE", "unknown"}

\* Packet i of a backlog built up before the first output callback.
BacklogPayload(i) ==
    CASE i % 3 = 0 -> <<>>
      [] i % 3 = 1 -> <<5, 0, 7>>
      [] OTHER -> <<200, 0, 246, 255>>
BacklogPacket(i) == [id |-> i, data |-> BacklogPayload(i)]

VARIABLES
    deployment,            \* "sink", "receiver", "slot" (single-slot receiver), "api"
    enable_playback,       \* ENABLE_PLAYBACK
    input_sample_rate_hz,  \* source rate given to run_audio_playback_thread
    device_rate_hz,        \* supported.sample_rate().0
    output_channels,       \* config.channels
    sample_format,         \* supported.sample_format()
    audio_queue,           \* Arc<Mutex<VecDeque<Vec<u8>>>>: the playback queue
    pending_audio,         \* receiver: packets waiting for the next tick
    audio_buffer,          \* Arc<Mutex<VecDeque<f32>>>: the ring buffer
    queue_lock,            \* holder of audio_queue's mutex
    pending_lock,          \* holder of pending_audio's mutex
    buffer_lock,           \* holder of audio_buffer's mutex
    prod_pc,               \* position of the producing handler
    prod_data,             \* the packet that handler is enqueueing
    tick_pc,               \* position of the receiver's tick handler
    sent,                  \* payload of the last send_output, or <<>>
    cb_pc,                 \* position of the output callback
    data,                  \* the callback's output slice
    shutdown_signal,       \* Arc<AtomicBool>: the shared shutdown signal
    device_available,      \* host.default_output_device() is Some
    main_pc,               \* position of main (or of the AudioPlayback owner)
    playback_started,      \* a playback thread has been spawned
    play_pc,               \* position of run_audio_playback_thread
    stream,                \* the cpal output stream: none, playing, released
    stream_path,           \* the builder that made the stream: f32 or i16
    sig_pc,                \* receiver: position of the SIGTERM thread
    sigint_pc,             \* position of the ctrlc handler
    sigterm_pending,       \* receiver: a SIGTERM waits in signals.pending()
    gst_pc,                \* receiver: position of the bus message task
    hist                   \* history counters (not program state)

config == <<deployment, enable_playback, input_sample_rate_hz, device_rate_hz,
            output_channels, sample_format, device_available>>
\* The variables of the lifecycle: threads, stream and shutdown signal.
life == <<shutdown_signal, main_pc, playback_started, play_pc, stream,
          stream_path, sig_pc, sigint_pc, sigterm_pending, gst_pc>>
vars == <<deployment, enable_playback, input_sample_rate_hz, device_rate_hz,
          output_channels, sample_format, device_available, audio_queue,
          pending_audio,
          audio_buffer, queue_lock, pending_lock, buffer_lock, prod_pc,
          prod_data, tick_pc, sent, cb_pc, data, life, hist>>

\* min_prefill_frames and max_buffer_samples of the callback.
MinPrefill == device_rate_hz \div PrefillDivisor
MaxBufferSamples == device_rate_hz * RingSeconds


InitHist(n) ==
    [backlog |-> n, log |-> <<>>, produced |-> n, pushed |-> n, pushed_pending |-> n, popped |-> 0,
     drained |-> 0, appended |-> 0, last_popped |-> 0, callbacks |-> 0,
     ticks |-> 0, events |-> 0, refilled_len |-> 0, prev_emitted |-> 0,
     last_emitted |-> 0, outcome |-> "none", after_signal |-> FALSE,
     start_err |-> FALSE, sends |-> 0, raw |-> <<>>, forwarded |-> <<>>]

\* The runs of the model: a fresh start of the sink under every source rate
\* and under every host config, and a sink or receiver that starts with a
\* backlog one short of the queue capacity or (receiver) with none.
MonoF32 == [channels |-> 1, format |-> "F32"]
StereoI16 == [channels |-> 2, format |-> "I16"]
Scenarios ==
    [deployment : {"sink"}, backlog : {0}, rate : InputRates, host : {MonoF32}]
    \cup [deployment : {"sink"}, backlog : {0}, rate : {20}, host : HostConfigs]
    \cup [deployment : {"sink"}, backlog : {SinkQueueMax - 1}, rate : {20},
          host : {MonoF32}]
    \cup [deployment : {"receiver"}, backlog : {0, PendingQueueMax - 1}, rate : {20},
          host : {StereoI16}]

\* The lifecycle while the engine runs: main is in its event loop, the
\* playback thread has built and started its stream and polls the shutdown
\* signal, the receiver's SIGTERM thread polls too, no signal has arrived.
Playing ==
    /\ shutdown_signal = FALSE
    /\ device_available = TRUE
    /\ main_pc = "loop"
    /\ playback_started = TRUE
    /\ play_pc = "poll"
    /\ stream = "playing"
    /\ stream_path = OutputPath(sample_format)
    /\ sig_pc = IF deployment = "receiver" THEN "check" ELSE "none"
    /\ sigint_pc = "armed"
    /\ sigterm_pending = FALSE
    /\ gst_pc = IF deployment = "receiver" THEN "poll" ELSE "none"

\* Mutant of SpawnPlayback: the thread is spawned whatever the flag says.
SpawnPlaybackAlways(enabled, started) == ~started

\* if enable_playback && !playback_started { thread::spawn(...) }
SpawnPlayback(enabled, started) == enabled /\ ~started

\* The process has neither returned from main nor exited, and the step is
\* not one of the lifecycle.
ProcessRuns ==
    /\ main_pc \notin {"stopped", "exited", "failed", "panicked"}
    /\ UNCHANGED life

\* State after construction, or after a backlog of n packets arrived before
\* the device asked for its first buffer.
Init ==
    /\ \E sc \in Scenarios :
         /\ deployment = sc.deployment
         /\ input_sample_rate_hz = sc.rate
         /\ output_channels = sc.host.channels
         /\ sample_format = sc.host.format
         /\ audio_queue =
              [i \in 1..Min(sc.backlog, QueueMax(sc.deployment)) |->
                  BacklogPacket(sc.backlog - Min(sc.backlog, QueueMax(sc.deployment)) + i)]
         /\ pending_audio =
              IF sc.deployment = "receiver"
              THEN [i \in 1..sc.backlog |-> BacklogPacket(i)] ELSE <<>>
         /\ hist = InitHist(sc.backlog)
    /\ enable_playback = TRUE
    /\ device_rate_hz \in DeviceRates
    /\ audio_buffer = <<>>
    /\ queue_lock = "free"
    /\ pending_lock = "free"
    /\ buffer_lock = "free"
    /\ prod_pc = "idle"
    /\ prod_data = <<>>
    /\ tick_pc = "idle"
    /\ sent = <<>>
    /\ cb_pc = "idle"
    /\ data = <<>>
    /\ Playing

\* ------------------------------------------------- producers and tick loop
\* let sr_hz: u32 = sample_rate.parse().unwrap_or(48000).  The sample_rate
\* parameter is written as the number its text stands for, and as a negative
\* number when the text is no u32 ("-1", "unknown", a missing parameter).
FallbackRate == 48000
ParseRate(sample_rate) == IF sample_rate >= 0 THEN sample_rate ELSE FallbackRate

\* Mutant of SourceRate: every packet's sample_rate becomes the source rate.
SourceRateFollowsPacket(current, spawns, sample_rate) == ParseRate(sample_rate)

\* The source rate of the engine: sr_hz is parsed only inside
\* `if enable_playback && !playback_started` and moved into the thread
\* spawned there; a packet that spawns nothing leaves the rate alone.
SourceRate(current, spawns, sample_rate) ==
    IF spawns THEN ParseRate(sample_rate) ELSE current

\* Mutant of DropGuard: the guard outlives its block, the mutex stays with
\* its holder.
DropGuardKept(holder) == holder

\* The MutexGuard goes out of scope at the end of its `if let Ok(mut guard)`
\* block (or at the callback's return): the mutex is free again.
DropGuard(holder) == "free"

\* Mutex::lock(): the caller gets the mutex at once when it is free, and
\* otherwise waits at the call (its pc stays at the lock) until it is.
\*
\* dora-audio-sink, Event::Input "audio" with the shutdown signal read as
\* false: spawn the playback thread on the first packet if playback is
\* enabled, convert the payload and reach audio_queue.lock().
SinkEnterRate(payload, format, channels, sample_rate) ==
    /\ deployment = "sink"
    /\ main_pc = "loop"
    /\ ~shutdown_signal
    /\ prod_pc = "idle"
    /\ hist.events < MaxEvents
    /\ playback_started' = (playback_started \/ SpawnPlayback(enable_playback, playback_started))
    /\ play_pc' = IF SpawnPlayback(enable_playback, playback_started)
                  THEN "setup" ELSE play_pc
    /\ UNCHANGED <<shutdown_signal, main_pc, stream, stream_path, sig_pc,
                   sigint_pc, sigterm_pending, gst_pc>>
    /\ prod_data' = [id |-> hist.produced + 1,
                     data |-> to_s16le_mono(payload, format, channels)]
    /\ IF ~enable_playback
       THEN prod_pc' = "idle" /\ UNCHANGED queue_lock
       ELSE IF queue_lock = "free"
       THEN prod_pc' = "push_queue" /\ queue_lock' = "producer"
       ELSE prod_pc' = "lock_queue" /\ UNCHANGED queue_lock
    /\ input_sample_rate_hz' =
          SourceRate(input_sample_rate_hz,
                     SpawnPlayback(enable_playback, playback_started), sample_rate)
    /\ UNCHANGED <<deployment, enable_playback, device_rate_hz, output_channels,
                   sample_format, device_available>>
    /\ UNCHANGED <<audio_queue, pending_audio, audio_buffer,
                   pending_lock, buffer_lock, tick_pc, sent, cb_pc, data>>

\* The same event when its sample_rate parameter is the rate the run was set
\* up with.
SinkEnter(payload, format, channels) ==
    SinkEnterRate(payload, format, channels, input_sample_rate_hz)

\* The same event in a build with overflow checks, when the conversion
\* multiplies a channel count of 2^63 or more: `channels * 2` (or `* 4`)
\* panics in main after the playback thread was spawned, and the process
\* ends.
SinkAudioPanics(payload, format, channels) ==
    /\ deployment = "sink"
    /\ main_pc = "loop"
    /\ ~shutdown_signal
    /\ prod_pc = "idle"
    /\ hist.events < MaxEvents
    /\ enable_playback
    /\ MulOverflows(format, channels)
    /\ main_pc' = "panicked"
    /\ playback_started' = (playback_started \/ SpawnPlayback(enable_playback, playback_started))
    /\ play_pc' = IF SpawnPlayback(enable_playback, playback_started)
                  THEN "setup" ELSE play_pc
    /\ hist' = [hist EXCEPT !.events = @ + 1,
                            !.raw = Append(@, [payload |-> payload,
                                               format |-> format,
                                               channels |-> channels])]
    /\ UNCHANGED <<shutdown_signal, stream, stream_path, sig_pc, sigint_pc,
                   sigterm_pending, gst_pc>>
    /\ UNCHANGED <<config, audio_queue, pending_audio, audio_buffer, queue_lock,
                   pending_lock, buffer_lock, prod_pc, prod_data, tick_pc, sent,
                   cb_pc, data>>

\* The audio input, logged as the packet it puts in the queue.
SinkAudioInput(payload, format, channels) ==
    /\ SinkEnter(payload, format, channels)
    /\ hist' = [hist EXCEPT !.produced = @ + 1, !.events = @ + 1,
                            !.log = Append(@, prod_data')]

\* The audio input, logged with the event's payload and metadata as well.
SinkAudioInputRaw(payload, format, channels) ==
    /\ SinkEnter(payload, format, channels)
    /\ hist' = [hist EXCEPT !.produced = @ + 1, !.events = @ + 1,
                            !.log = Append(@, prod_data'),
                            !.raw = Append(@, [payload |-> payload,
                                               format |-> format,
                                               channels |-> channels])]

\* The audio input of a packet whose sample_rate parameter is given, logged
\* with the event's payload and metadata.
SinkAudioRated(payload, sample_rate) ==
    /\ SinkEnterRate(payload, "S16LE", 1, sample_rate)
    /\ hist' = [hist EXCEPT !.produced = @ + 1, !.events = @ + 1,
                            !.log = Append(@, prod_data'),
                            !.raw = Append(@, [payload |-> payload,
                                               format |-> "S16LE",
                                               channels |-> 1,
                                               sample_rate |-> sample_rate])]

\* audio_queue.lock() returns to the waiting event loop.
SinkLockQueue ==
    /\ ProcessRuns
    /\ deployment = "sink"
    /\ prod_pc = "lock_queue"
    /\ queue_lock = "free"
    /\ queue_lock' = "producer"
    /\ prod_pc' = "push_queue"
    /\ UNCHANGED <<config, audio_queue, pending_audio, audio_buffer, pending_lock,
                   buffer_lock, prod_data, tick_pc, sent, cb_pc, data, hist>>

\* guard.push_back(converted); while guard.len() > 100 { pop_front }; unlock.
SinkPushQueue ==
    /\ ProcessRuns
    /\ deployment = "sink"
    /\ prod_pc = "push_queue"
    /\ audio_queue' = Enqueue(audio_queue, prod_data, SinkQueueMax)
    /\ queue_lock' = DropGuard(queue_lock)
    /\ prod_pc' = "idle"
    /\ hist' = [hist EXCEPT !.pushed = @ + 1]
    /\ UNCHANGED <<config, pending_audio, audio_buffer, pending_lock, buffer_lock,
                   prod_data, tick_pc, sent, cb_pc, data>>

\* receiver, appsink new_sample (the pipeline is in state Playing until the
\* cleanup sets it to Null): audio_data = map.as_slice().to_vec(), then
\* pending_audio_clone.lock().
NewSample(payload) ==
    /\ ProcessRuns
    /\ deployment = "receiver"
    /\ main_pc \in {"loop", "cleanup", "join_playback", "stop_pipeline"}
    /\ prod_pc = "idle"
    /\ hist.events < MaxEvents
    /\ prod_data' = [id |-> hist.produced + 1, data |-> payload]
    /\ hist' = [hist EXCEPT !.produced = @ + 1, !.events = @ + 1,
                            !.log = Append(@, prod_data')]
    /\ IF pending_lock = "free"
       THEN prod_pc' = "push_pending" /\ pending_lock' = "producer"
       ELSE prod_pc' = "lock_pending" /\ UNCHANGED pending_lock
    /\ UNCHANGED <<config, audio_queue, pending_audio, audio_buffer, queue_lock,
                   buffer_lock, tick_pc, sent, cb_pc, data>>

\* pending_audio_clone.lock() returns to the waiting appsink callback.
AppsinkLockPending ==
    /\ ProcessRuns
    /\ prod_pc = "lock_pending"
    /\ pending_lock = "free"
    /\ pending_lock' = "producer"
    /\ prod_pc' = "push_pending"
    /\ UNCHANGED <<config, audio_queue, pending_audio, audio_buffer, queue_lock,
                   buffer_lock, prod_data, tick_pc, sent, cb_pc, data, hist>>

\* guard.push_back(audio_data.clone()); cap at 200; unlock; then, with
\* playback enabled, queue.lock() on the playback queue.
AppsinkPushPending ==
    /\ ProcessRuns
    /\ prod_pc = "push_pending"
    /\ pending_audio' = Enqueue(pending_audio, prod_data, PendingQueueMax)
    /\ pending_lock' = DropGuard(pending_lock)
    /\ IF ~enable_playback
       THEN prod_pc' = "idle" /\ UNCHANGED queue_lock
       ELSE IF queue_lock = "free"
       THEN prod_pc' = "push_queue" /\ queue_lock' = "producer"
       ELSE prod_pc' = "lock_queue" /\ UNCHANGED queue_lock
    /\ hist' = [hist EXCEPT !.pushed_pending = @ + 1]
    /\ UNCHANGED <<config, audio_queue, audio_buffer, buffer_lock,
                   prod_data, tick_pc, sent, cb_pc, data>>

\* queue.lock() returns to the waiting appsink callback.
AppsinkLockQueue ==
    /\ ProcessRuns
    /\ deployment = "receiver"
    /\ prod_pc = "lock_queue"
    /\ queue_lock = "free"
    /\ queue_lock' = "producer"
    /\ prod_pc' = "push_queue"
    /\ UNCHANGED <<config, audio_queue, pending_audio, audio_buffer, pending_lock,
                   buffer_lock, prod_data, tick_pc, sent, cb_pc, data, hist>>

\* guard.push_back(audio_data); while guard.len() > 10 { pop_front }; unlock.
AppsinkPushQueue ==
    /\ ProcessRuns
    /\ deployment = "receiver"
    /\ prod_pc = "push_queue"
    /\ audio_queue' = Enqueue(audio_queue, prod_data, PlaybackQueueMax)
    /\ queue_lock' = DropGuard(queue_lock)
    /\ prod_pc' = "idle"
    /\ hist' = [hist EXCEPT !.pushed = @ + 1]
    /\ UNCHANGED <<config, pending_audio, audio_buffer, pending_lock, buffer_lock,
                   prod_data, tick_pc, sent, cb_pc, data>>

\* receiver, Event::Input "tick" with the shutdown signal read as false: the
\* handler reaches pending_audio.lock().
TickEvent ==
    /\ ProcessRuns
    /\ deployment = "receiver"
    /\ main_pc = "loop"
    /\ ~shutdown_signal
    /\ tick_pc = "idle"
    /\ hist.events < MaxEvents
    /\ IF pending_lock = "free"
       THEN tick_pc' = "drain" /\ pending_lock' = "tick"
       ELSE tick_pc' = "lock_pending" /\ UNCHANGED pending_lock
    /\ hist' = [hist EXCEPT !.ticks = @ + 1, !.events = @ + 1]
    /\ UNCHANGED <<config, audio_queue, pending_audio, audio_buffer, queue_lock,
                   buffer_lock, prod_pc, prod_data, sent, cb_pc, data>>

\* pending_audio.lock() returns to the waiting tick handler.
TickLockPending ==
    /\ ProcessRuns
    /\ tick_pc = "lock_pending"
    /\ pending_lock = "free"
    /\ pending_lock' = "tick"
    /\ tick_pc' = "drain"
    /\ UNCHANGED <<config, audio_queue, pending_audio, audio_buffer, queue_lock,
                   buffer_lock, prod_pc, prod_data, sent, cb_pc, data, hist>>

\* The bytes of packets lo..hi of q, in order.
RECURSIVE ConcatRange(_, _, _)
ConcatRange(q, lo, hi) ==
    IF lo > hi THEN <<>>
    ELSE IF lo = hi THEN q[lo].data
    ELSE LET mid == (lo + hi) \div 2
         IN ConcatRange(q, lo, mid) \o ConcatRange(q, mid + 1, hi)

\* Mutant of Concat: only the latest packet is forwarded.
ConcatLatestOnly(q) == q[Len(q)].data

\* let mut buf = ...; while let Some(chunk) = q.pop_front() {
\*     buf.extend_from_slice(&chunk) }
Concat(q) == ConcatRange(q, 1, Len(q))

\* Drain under the lock, unlock, and send the concatenation if there was one.
TickDrain ==
    /\ ProcessRuns
    /\ tick_pc = "drain"
    /\ pending_audio' = <<>>
    /\ pending_lock' = DropGuard(pending_lock)
    /\ tick_pc' = "idle"
    /\ sent' = IF pending_audio # <<>> THEN Concat(pending_audio) ELSE sent
    /\ hist' = [hist EXCEPT !.drained = @ + Len(pending_audio),
                            !.sends = IF pending_audio # <<>> THEN @ + 1 ELSE @]
    /\ UNCHANGED <<config, audio_queue, audio_buffer, queue_lock, buffer_lock,
                   prod_pc, prod_data, cb_pc, data>>

\* ------------------------------------------------------- output callback
\* One f32 of value 1.0 in ring units.
RingUnit == 2 * SampleDivisor

\* let frames_needed = data.len() / output_channels;
FramesNeeded == Len(data) \div output_channels

\* An output slot the callback has not written (src -1); a written slot has
\* src 0 (a literal zero) or the seq of the ring sample it was taken from.
StaleSlot == [v |-> 0, src |-> 0 - 1]
ZeroSlot == [v |-> 0, src |-> 0]

\* Mutant of PopPacket: the packet taken goes back to the end of the queue.
PopPacketRequeue(q) == <<Head(q), Append(Tail(q), Head(q))>>

\* Mutants of PopPacket: the packet is read but stays in the queue; pop_back
\* instead of pop_front.
PopPacketPeek(q) == <<Head(q), q>>
PopPacketBack(q) == <<q[Len(q)], Take(q, Len(q) - 1)>>

\* queue_guard.pop_front(): the packet taken and the queue left.
PopPacket(q) == <<Head(q), Tail(q)>>

\* Mutant of RefillNeeded: the loop goes on until the queue is empty.
RefillNeededGreedy(len, needed, q) == q # <<>>

\* while buffer_guard.len() < frames_needed && !queue_guard.is_empty()
RefillNeeded(len, needed, q) == len < needed /\ q # <<>>

\* Decode, resample and buffer_guard.extend(resampled): the samples of the
\* packet go to the back, numbered base+1.. in the order of the append.
ExtendBuffer(buf, packet, base) ==
    LET resampled == Resample(DecodeS16Mono(packet.data),
                              input_sample_rate_hz, device_rate_hz)
    IN buf \o [k \in 1..Len(resampled) |->
                  [v |-> resampled[k], seq |-> base + k, pkt |-> packet.id]]

\* Mutant of Underrun: the underrun rule is missing.
UnderrunNever(len, needed, prefill) == FALSE

\* Mutants of Underrun: silence only for an empty buffer; half the prefill.
UnderrunEmptyOnly(len, needed, prefill) == len < needed /\ len = 0
UnderrunHalfPrefill(len, needed, prefill) == len < needed /\ len < prefill \div 2

\* if buffer_guard.len() < frames_needed && buffer_guard.len() < min_prefill_frames
Underrun(len, needed, prefill) == len < needed /\ len < prefill

\* Mutant of SampleOut: the i16 path rounds to the nearest integer.
SampleOutRounded(path, v) ==
    IF path = "i16"
    THEN (Max(0 - RingUnit, Min(RingUnit, v)) * I16Scale + SampleDivisor)
            \div RingUnit
    ELSE v

\* The value written for ring value v: as is on the f32 path,
\* (v.clamp(-1.0, 1.0) * 32767.0) as i16 on the i16 path.
SampleOut(path, v) ==
    IF path = "i16"
    THEN TruncDiv(Max(0 - RingUnit, Min(RingUnit, v)) * I16Scale, RingUnit)
    ELSE v

\* Mutant of FrameSlot: a short buffer repeats its last sample.
FrameSlotRepeatLast(buf, f, path) ==
    IF buf = <<>> THEN [v |-> 0, src |-> 0]
    ELSE [v |-> SampleOut(path, buf[Min(f, Len(buf))].v),
          src |-> buf[Min(f, Len(buf))].seq]

\* buffer_guard.get(frame_index).copied().unwrap_or(0.0)
FrameSlot(buf, f, path) ==
    IF f <= Len(buf)
    THEN [v |-> SampleOut(path, buf[f].v), src |-> buf[f].seq]
    ELSE ZeroSlot

\* Mutant of WriteFrames: only the first channel of each frame is written.
WriteFramesFirstChannel(out, buf, needed, ch, path) ==
    [i \in 1..Len(out) |->
        IF i <= needed * ch /\ (i - 1) % ch = 0
        THEN IF ((i - 1) \div ch) + 1 <= Len(buf)
             THEN [v |-> SampleOut(path, buf[((i - 1) \div ch) + 1].v),
                   src |-> buf[((i - 1) \div ch) + 1].seq]
             ELSE [v |-> 0, src |-> 0]
        ELSE out[i]]

\* for frame_index in 0..frames_to_write { for ch in 0..output_channels {
\*     data[base + ch] = sample_value } }
WriteFrames(out, buf, needed, ch, path) ==
    [i \in 1..Len(out) |->
        IF i <= needed * ch THEN FrameSlot(buf, ((i - 1) \div ch) + 1, path)
        ELSE out[i]]

\* for sample in data.iter_mut() { *sample = 0 }
WriteSilence(out) == [i \in 1..Len(out) |-> ZeroSlot]

\* Mutant of RemoveFrames: the frames are taken off the back.
RemoveFramesBack(buf, needed) == Take(buf, Len(buf) - Min(needed, Len(buf)))

\* let frames_removed = frames_to_write.min(buffer_guard.len()); pop_front each.
RemoveFrames(buf, needed) == Drop(buf, Min(needed, Len(buf)))

\* Mutant of TrimBuffer: the newest samples are dropped, the oldest kept.
TrimBufferKeepOldest(buf, max) == IF Len(buf) > max THEN Take(buf, max) ELSE buf

\* Mutant of TrimBuffer: the trailing trim is missing.
TrimBufferNever(buf, max) == buf

\* while buffer_guard.len() > max_buffer_samples { buffer_guard.pop_front(); }
TrimBuffer(buf, max) == IF Len(buf) > max THEN Drop(buf, Len(buf) - max) ELSE buf

\* The host asks for `frames` frames: data is a slice of frames * channels
\* slots holding whatever was there.  The callback takes audio_queue's
\* mutex, then audio_buffer's (which nothing else ever takes).
CallbackEnter(frames) ==
    /\ ProcessRuns
    /\ stream = "playing"
    /\ cb_pc = "idle"
    /\ data' = [i \in 1..(frames * output_channels) |-> StaleSlot]
    /\ IF queue_lock = "free"
       THEN cb_pc' = "refill" /\ queue_lock' = "callback" /\ buffer_lock' = "callback"
       ELSE cb_pc' = "lock_queue" /\ UNCHANGED <<queue_lock, buffer_lock>>
    /\ UNCHANGED <<config, audio_queue, pending_audio, audio_buffer,
                   pending_lock, prod_pc, prod_data, tick_pc, sent>>

\* An invocation that counts among the events of the run.
CallbackInvoke(frames) ==
    /\ hist.events < MaxEvents
    /\ CallbackEnter(frames)
    /\ hist' = [hist EXCEPT !.callbacks = @ + 1, !.events = @ + 1,
                            !.outcome = "running",
                            !.after_signal = shutdown_signal]

\* The host goes on invoking the callback once the counted events of the
\* run are over (the counters stay where they are).
CallbackInvokeAgain(frames) ==
    /\ hist.events >= MaxEvents
    /\ CallbackEnter(frames)
    /\ hist' = [hist EXCEPT !.outcome = "running",
                            !.after_signal = shutdown_signal]

\* audio_queue_clone.lock() returns to the waiting callback, which then
\* takes audio_buffer's mutex.
CallbackLockQueue ==
    /\ ProcessRuns
    /\ cb_pc = "lock_queue"
    /\ queue_lock = "free"
    /\ queue_lock' = "callback"
    /\ buffer_lock' = "callback"
    /\ cb_pc' = "refill"
    /\ UNCHANGED <<config, audio_queue, pending_audio, audio_buffer, pending_lock,
                   prod_pc, prod_data, tick_pc, sent, data, hist>>

\* One iteration of the refill loop.
CallbackRefill ==
    /\ ProcessRuns
    /\ cb_pc = "refill"
    /\ RefillNeeded(Len(audio_buffer), FramesNeeded, audio_queue)
    /\ LET popped == PopPacket(audio_queue)
           buf == ExtendBuffer(audio_buffer, popped[1], hist.appended)
       IN /\ audio_queue' = popped[2]
          /\ audio_buffer' = buf
          /\ hist' = [hist EXCEPT !.popped = @ + 1,
                                  !.last_popped = popped[1].id,
                                  !.appended = @ + (Len(buf) - Len(audio_buffer))]
    /\ UNCHANGED <<config, pending_audio, queue_lock, pending_lock, buffer_lock,
                   prod_pc, prod_data, tick_pc, sent, cb_pc, data>>

\* The loop is over and the underrun rule applies: silence, return (both
\* guards are dropped).
CallbackSilence ==
    /\ ProcessRuns
    /\ cb_pc = "refill"
    /\ ~RefillNeeded(Len(audio_buffer), FramesNeeded, audio_queue)
    /\ Underrun(Len(audio_buffer), FramesNeeded, MinPrefill)
    /\ data' = WriteSilence(data)
    /\ queue_lock' = DropGuard(queue_lock)
    /\ buffer_lock' = DropGuard(buffer_lock)
    /\ cb_pc' = "idle"
    /\ hist' = [hist EXCEPT !.refilled_len = Len(audio_buffer),
                            !.prev_emitted = hist.last_emitted,
                            !.outcome = "silence"]
    /\ UNCHANGED <<config, audio_queue, pending_audio, audio_buffer, pending_lock,
                   prod_pc, prod_data, tick_pc, sent>>

\* The loop is over and the underrun rule does not apply: write the frames,
\* remove them, trim to max_buffer_samples, return.
CallbackEmit ==
    /\ ProcessRuns
    /\ cb_pc = "refill"
    /\ ~RefillNeeded(Len(audio_buffer), FramesNeeded, audio_queue)
    /\ ~Underrun(Len(audio_buffer), FramesNeeded, MinPrefill)
    /\ data' = WriteFrames(data, audio_buffer, FramesNeeded, output_channels,
                           stream_path)
    /\ audio_buffer' = TrimBuffer(RemoveFrames(audio_buffer, FramesNeeded),
                                  MaxBufferSamples)
    /\ queue_lock' = DropGuard(queue_lock)
    /\ buffer_lock' = DropGuard(buffer_lock)
    /\ cb_pc' = "idle"
    /\ hist' = [hist EXCEPT
                  !.refilled_len = Len(audio_buffer),
                  !.prev_emitted = hist.last_emitted,
                  !.last_emitted =
                      IF Min(FramesNeeded, Len(audio_buffer)) > 0
                      THEN audio_buffer[Min(FramesNeeded, Len(audio_buffer))].seq
                      ELSE @,
                  !.outcome = "emit"]
    /\ UNCHANGED <<config, audio_queue, pending_audio, pending_lock, prod_pc,
                   prod_data, tick_pc, sent>>

\* ----------------------------------------------------------- specification
Produce ==
    \/ \E payload \in Payloads, format \in SinkFormats, channels \in 1..2 :
          SinkAudioInput(payload, format, channels)
    \/ \E payload \in Payloads : NewSample(payload)

Invoke == \E frames \in 1..MaxFrames : CallbackInvoke(frames)

Next ==
    \/ Produce
    \/ SinkLockQueue
    \/ SinkPushQueue
    \/ AppsinkLockPending
    \/ AppsinkPushPending
    \/ AppsinkLockQueue
    \/ AppsinkPushQueue
    \/ TickEvent
    \/ TickLockPending
    \/ TickDrain
    \/ Invoke
    \/ CallbackLockQueue
    \/ CallbackRefill
    \/ CallbackSilence
    \/ CallbackEmit

Spec == Init /\ [][Next]_vars

\* The engine with a host that never stops asking for buffers: the runs of
\* Spec that start with empty queues, continued by further callbacks, with
\* every thread that can take a step taking one eventually.
DrainInit ==
    /\ Init
    /\ hist.backlog = 0
    /\ \/ deployment = "receiver"
       \/ deployment = "sink" /\ input_sample_rate_hz = 10
InvokeAgain == CallbackInvokeAgain(MaxFrames)
ShortPayloads == {<<>>, <<5, 0, 7>>, <<200, 0, 246, 255>>}
ShortProduce ==
    \/ \E payload \in ShortPayloads : SinkAudioInput(payload, "S16LE", 1)
    \/ \E payload \in ShortPayloads : NewSample(payload)
DrainNext ==
    \/ ShortProduce
    \/ SinkLockQueue
    \/ SinkPushQueue
    \/ AppsinkLockPending
    \/ AppsinkPushPending
    \/ AppsinkLockQueue
    \/ AppsinkPushQueue
    \/ TickEvent
    \/ TickLockPending
    \/ TickDrain
    \/ Invoke
    \/ InvokeAgain
    \/ CallbackLockQueue
    \/ CallbackRefill
    \/ CallbackSilence
    \/ CallbackEmit
DrainFairness ==
    /\ WF_vars(Invoke \/ InvokeAgain \/ CallbackLockQueue \/ CallbackRefill
                  \/ CallbackSilence \/ CallbackEmit)
    /\ WF_vars(SinkLockQueue \/ SinkPushQueue \/ AppsinkLockPending
                  \/ AppsinkPushPending \/ AppsinkLockQueue \/ AppsinkPushQueue)
    /\ WF_vars(TickLockPending \/ TickDrain)
DrainSpec == DrainInit /\ [][DrainNext]_vars /\ DrainFairness

\* The decode path on its own: the sink receives one audio event with any
\* of these payloads, format strings and channel counts (usize::MAX, written
\* -1, among them; the build has overflow checks or not), converts and
\* enqueues it, and the output callback pops, decodes and resamples it.
\* The payloads: nothing, less than a sample, 13 zero bytes, the stereo
\* frames (100, -100), the largest and the smallest 32-bit and 16-bit
\* values, (-1, 0) as 32-bit, and the floats 0.5, -1.0, 2.0 and a stray byte.
DecodeFormats == {"S16LE", "S32LE", "F32LE", "S8", "U8", "unknown"}
DecodeChannels == (0 - 1)..3
DecodePayloads ==
    {<<>>,
     <<5>>,
     [j \in 1..13 |-> 0],
     <<100, 0, 156, 255, 100, 0, 156, 255>>,
     <<255, 255, 255, 127, 255, 255, 255, 127>>,
     <<0, 128, 0, 128, 0, 128>>,
     <<255, 255, 255, 255, 0, 0, 0, 0>>,
     <<0, 0, 0, 63, 0, 0, 128, 191, 0, 0, 0, 64, 7>>}
DecodeInit == Init /\ deployment = "sink" /\ hist.backlog = 0
DecodeProduce ==
    /\ hist.produced = 0
    /\ \E payload \in DecodePayloads, format \in DecodeFormats,
          channels \in DecodeChannels :
          SinkAudioInputRaw(payload, format, channels)
DecodePanic ==
    /\ hist.produced = 0
    /\ \E payload \in DecodePayloads, format \in DecodeFormats,
          channels \in DecodeChannels :
          SinkAudioPanics(payload, format, channels)
DecodeNext ==
    \/ DecodeProduce
    \/ DecodePanic
    \/ SinkLockQueue
    \/ SinkPushQueue
    \/ Invoke
    \/ CallbackLockQueue
    \/ CallbackRefill
    \/ CallbackSilence
    \/ CallbackEmit
DecodeSpec == DecodeInit /\ [][DecodeNext]_vars

\* The resampler at the rates of real devices: the sink is started at one
\* of these source and device rates and receives one mono S16LE packet of
\* one of these lengths (in samples).  The packets are silence, for which
\* the interpolation is exact at every ratio.
RatePairs ==
    {[source |-> 48000, device |-> 44100],
     [source |-> 16000, device |-> 44100],
     [source |-> 11025, device |-> 192000],
     [source |-> 44100, device |-> 48000],
     [source |-> 48000, device |-> 48000]}
PacketSamples == {0, 1, 80, 720, 960, 2452}
SilentPayload(n) == [j \in 1..(2 * n) |-> 0]
ResampleInit ==
    /\ deployment = "sink"
    /\ enable_playback = TRUE
    /\ \E pair \in RatePairs :
          input_sample_rate_hz = pair.source /\ device_rate_hz = pair.device
    /\ output_channels = 1
    /\ sample_format = "F32"
    /\ audio_queue = <<>>
    /\ pending_audio = <<>>
    /\ hist = InitHist(0)
    /\ audio_buffer = <<>>
    /\ queue_lock = "free"
    /\ pending_lock = "free"
    /\ buffer_lock = "free"
    /\ prod_pc = "idle"
    /\ prod_data = <<>>
    /\ tick_pc = "idle"
    /\ sent = <<>>
    /\ cb_pc = "idle"
    /\ data = <<>>
    /\ Playing
ResampleProduce ==
    /\ hist.produced = 0
    /\ \E n \in PacketSamples : SinkAudioInput(SilentPayload(n), "S16LE", 1)
ResampleInvoke == CallbackInvoke(MaxFrames)
ResampleNext ==
    \/ ResampleProduce
    \/ SinkLockQueue
    \/ SinkPushQueue
    \/ ResampleInvoke
    \/ CallbackLockQueue
    \/ CallbackRefill
    \/ CallbackSilence
    \/ CallbackEmit
ResampleSpec == ResampleInit /\ [][ResampleNext]_vars

\* ---------------------------------------------------------------- lifecycle
\* The queues, locks and handler positions, which no lifecycle step touches.
engine == <<audio_queue, pending_audio, audio_buffer, queue_lock, pending_lock,
            buffer_lock, prod_pc, prod_data, tick_pc, sent, cb_pc, data>>

Alive == main_pc \notin {"stopped", "exited", "failed", "panicked"}

\* Mutants of LoadSignal: the loop never sees the signal; it always does.
LoadSignalStale(sig) == FALSE
LoadSignalAlways(sig) == TRUE

\* shutdown_signal.load(Ordering::Relaxed)
LoadSignal(sig) == sig

\* Mutant of StoreShutdown: the store leaves the flag as it is.
StoreShutdownKept(sig) == sig

\* Mutant of StoreShutdown: the store flips the flag.
StoreShutdownToggle(sig) == ~sig

\* shutdown_signal.store(true, Ordering::Relaxed)
StoreShutdown(sig) == TRUE

\* Mutant of DeviceFound: the lookup never fails.
DeviceFoundAlways(available) == TRUE

\* host.default_output_device().ok_or_else(...)? goes on only with a device.
DeviceFound(available) == available

\* run_audio_playback_thread from its start to stream.play(): without a
\* device it returns the error; with one it builds the stream for the
\* host's sample format and starts it.
PlaybackSetup ==
    /\ Alive
    /\ play_pc = "setup"
    /\ IF DeviceFound(device_available)
       THEN /\ stream' = "playing"
            /\ stream_path' = OutputPath(sample_format)
            /\ play_pc' = "poll"
            /\ UNCHANGED hist
       ELSE /\ play_pc' = "failed"
            /\ hist' = [hist EXCEPT !.start_err = TRUE]
            /\ UNCHANGED <<stream, stream_path>>
    /\ UNCHANGED <<config, engine, shutdown_signal, main_pc, playback_started,
                   sig_pc, sigint_pc, sigterm_pending, gst_pc>>

\* while !shutdown_signal.load(Relaxed): the loop goes to sleep on false and
\* leaves on true.
PlaybackPoll ==
    /\ Alive
    /\ play_pc = "poll"
    /\ play_pc' = IF LoadSignal(shutdown_signal) THEN "drop" ELSE "sleep"
    /\ UNCHANGED <<config, engine, shutdown_signal, main_pc, playback_started,
                   stream, stream_path, sig_pc, sigint_pc, sigterm_pending, gst_pc, hist>>

\* std::thread::sleep(100 ms) is over.
PlaybackWake ==
    /\ Alive
    /\ play_pc = "sleep"
    /\ play_pc' = "poll"
    /\ UNCHANGED <<config, engine, shutdown_signal, main_pc, playback_started,
                   stream, stream_path, sig_pc, sigint_pc, sigterm_pending, gst_pc, hist>>

\* Ok(()): the function returns and its stream is dropped, which waits for
\* a callback in progress.
PlaybackReturn ==
    /\ Alive
    /\ play_pc = "drop"
    /\ cb_pc = "idle"
    /\ stream' = "released"
    /\ play_pc' = "returned"
    /\ UNCHANGED <<config, engine, shutdown_signal, main_pc, playback_started,
                   stream_path, sig_pc, sigint_pc, sigterm_pending, gst_pc, hist>>

\* The event loop ends: Event::Stop, or events.next() returns None.
MainBreak ==
    /\ deployment \in {"sink", "receiver"}
    /\ main_pc = "loop"
    /\ IF deployment = "sink" THEN prod_pc = "idle" ELSE tick_pc = "idle"
    /\ main_pc' = "cleanup"
    /\ UNCHANGED <<config, engine, shutdown_signal, playback_started, play_pc,
                   stream, stream_path, sig_pc, sigint_pc, sigterm_pending, gst_pc, hist>>

\* A `?` in the event loop returns an error from main (the sink's conversion
\* of the Arrow data, the receiver's send_output): the process ends with its
\* threads where they are.
MainFails ==
    /\ deployment \in {"sink", "receiver"}
    /\ main_pc = "loop"
    /\ IF deployment = "sink" THEN prod_pc = "idle" ELSE tick_pc = "idle"
    /\ ~LoadSignal(shutdown_signal)
    /\ main_pc' = "failed"
    /\ UNCHANGED <<config, engine, shutdown_signal, playback_started, play_pc,
                   stream, stream_path, sig_pc, sigint_pc, sigterm_pending, gst_pc, hist>>

\* An event arrives and shutdown_signal.load() at the top of the loop is true.
MainSeesShutdown ==
    /\ deployment \in {"sink", "receiver"}
    /\ main_pc = "loop"
    /\ IF deployment = "sink" THEN prod_pc = "idle" ELSE tick_pc = "idle"
    /\ LoadSignal(shutdown_signal)
    /\ main_pc' = "cleanup"
    /\ UNCHANGED <<config, engine, shutdown_signal, playback_started, play_pc,
                   stream, stream_path, sig_pc, sigint_pc, sigterm_pending, gst_pc, hist>>

\* Cleanup: shutdown_signal.store(true, Relaxed).
MainCleanupStore ==
    /\ main_pc = "cleanup"
    /\ shutdown_signal' = StoreShutdown(shutdown_signal)
    /\ main_pc' = "join_playback"
    /\ UNCHANGED <<config, engine, playback_started, play_pc, stream,
                   stream_path, sig_pc, sigint_pc, sigterm_pending, gst_pc, hist>>

\* if let Some(handle) = audio_thread_handle { handle.join() }: the sink is
\* then done, the receiver goes on to stop its pipeline.
MainJoinPlayback ==
    /\ main_pc = "join_playback"
    /\ play_pc \in {"none", "returned", "failed"}
    /\ main_pc' = IF deployment = "sink" THEN "stopped" ELSE "stop_pipeline"
    /\ UNCHANGED <<config, engine, shutdown_signal, playback_started, play_pc,
                   stream, stream_path, sig_pc, sigint_pc, sigterm_pending, gst_pc, hist>>

\* receiver: pipeline.set_state(Null), which waits for a new_sample callback
\* in progress, and drop(pool).
MainStopPipeline ==
    /\ main_pc = "stop_pipeline"
    /\ prod_pc = "idle"
    /\ main_pc' = "join_signal"
    /\ UNCHANGED <<config, engine, shutdown_signal, playback_started, play_pc,
                   stream, stream_path, sig_pc, sigint_pc, sigterm_pending, gst_pc, hist>>

\* receiver: signal_thread_handle.join(), then Ok(()).
MainJoinSignal ==
    /\ main_pc = "join_signal"
    /\ sig_pc = "exited"
    /\ main_pc' = "stopped"
    /\ UNCHANGED <<config, engine, shutdown_signal, playback_started, play_pc,
                   stream, stream_path, sig_pc, sigint_pc, sigterm_pending, gst_pc, hist>>

\* receiver, SIGTERM thread: leave on a shutdown signal already set; on a
\* pending SIGTERM store the signal and leave; otherwise sleep 100 ms and
\* check again.
SigCheck ==
    /\ Alive
    /\ sig_pc = "check"
    /\ IF LoadSignal(shutdown_signal)
       THEN sig_pc' = "exited" /\ UNCHANGED <<shutdown_signal, sigterm_pending>>
       ELSE IF sigterm_pending
       THEN /\ shutdown_signal' = StoreShutdown(shutdown_signal)
            /\ sigterm_pending' = FALSE
            /\ sig_pc' = "exited"
       ELSE sig_pc' = "check" /\ UNCHANGED <<shutdown_signal, sigterm_pending>>
    /\ UNCHANGED <<config, engine, main_pc, playback_started, play_pc, stream,
                   stream_path, sigint_pc, gst_pc, hist>>

\* A SIGTERM is delivered to the receiver while its signal thread runs.
SigtermArrives ==
    /\ Alive
    /\ deployment = "receiver"
    /\ sig_pc = "check"
    /\ ~sigterm_pending
    /\ sigterm_pending' = TRUE
    /\ UNCHANGED <<config, engine, shutdown_signal, main_pc, playback_started,
                   play_pc, stream, stream_path, sig_pc, sigint_pc, gst_pc,
                   hist>>

\* receiver, ctrlc handler: store the signal.
SigintReceiver ==
    /\ Alive
    /\ deployment = "receiver"
    /\ sigint_pc = "armed"
    /\ shutdown_signal' = StoreShutdown(shutdown_signal)
    /\ sigint_pc' = "done"
    /\ UNCHANGED <<config, engine, main_pc, playback_started, play_pc, stream,
                   stream_path, sig_pc, sigterm_pending, gst_pc, hist>>

\* receiver: what bus.timed_pop(100 ms) hands to the message task: nothing
\* within the timeout, or a message.
BusMessages == {"none", "state_changed", "error", "eos"}

\* receiver, message task on the thread pool: leave on a shutdown signal;
\* otherwise wait up to 100 ms for a bus message, leave on Error or Eos, and
\* check again on anything else.
GstPoll ==
    /\ Alive
    /\ gst_pc = "poll"
    /\ IF LoadSignal(shutdown_signal)
       THEN gst_pc' = "exited"
       ELSE \E msg \in BusMessages :
              gst_pc' = IF msg \in {"error", "eos"} THEN "exited" ELSE "poll"
    /\ UNCHANGED <<config, engine, shutdown_signal, main_pc, playback_started,
                   play_pc, stream, stream_path, sig_pc, sigint_pc,
                   sigterm_pending, hist>>

\* receiver: pipeline.set_state(Null) returns an error and the `?` returns
\* it from main: the later join is not reached.
MainStopPipelineFails ==
    /\ main_pc = "stop_pipeline"
    /\ prod_pc = "idle"
    /\ main_pc' = "failed"
    /\ UNCHANGED <<config, engine, shutdown_signal, playback_started, play_pc,
                   stream, stream_path, sig_pc, sigint_pc, sigterm_pending,
                   gst_pc, hist>>

\* dora-audio-sink, ctrlc handler: store the signal ...
SigintSink ==
    /\ Alive
    /\ deployment = "sink"
    /\ sigint_pc = "armed"
    /\ shutdown_signal' = StoreShutdown(shutdown_signal)
    /\ sigint_pc' = "exiting"
    /\ UNCHANGED <<config, engine, main_pc, playback_started, play_pc, stream,
                   stream_path, sig_pc, sigterm_pending, gst_pc, hist>>

\* ... and std::process::exit(0): the process ends with its threads where
\* they are.
SinkHandlerExit ==
    /\ Alive
    /\ sigint_pc = "exiting"
    /\ main_pc' = "exited"
    /\ sigint_pc' = "done"
    /\ UNCHANGED <<config, engine, shutdown_signal, playback_started, play_pc,
                   stream, stream_path, sig_pc, sigterm_pending, gst_pc, hist>>

\* AudioPlayback::start: without a device the error is returned; with one a
\* new ring buffer and an f32 stream are made and started, and self.stream
\* takes the stream (a stream it held is dropped).
ApStart ==
    /\ deployment = "api"
    /\ main_pc = "loop"
    /\ cb_pc = "idle"
    /\ hist.events < MaxEvents
    /\ IF DeviceFound(device_available)
       THEN /\ stream' = "playing"
            /\ stream_path' = "f32"
            /\ audio_buffer' = <<>>
            /\ hist' = [hist EXCEPT !.events = @ + 1, !.start_err = FALSE]
       ELSE /\ hist' = [hist EXCEPT !.events = @ + 1, !.start_err = TRUE]
            /\ UNCHANGED <<stream, stream_path, audio_buffer>>
    /\ UNCHANGED <<config, audio_queue, pending_audio, queue_lock, pending_lock,
                   buffer_lock, prod_pc, prod_data, tick_pc, sent, cb_pc, data,
                   shutdown_signal, main_pc, playback_started, play_pc, sig_pc,
                   sigint_pc, sigterm_pending, gst_pc>>

\* AudioPlayback::stop: self.stream = None.
ApStop ==
    /\ deployment = "api"
    /\ main_pc = "loop"
    /\ cb_pc = "idle"
    /\ stream' = IF stream = "playing" THEN "released" ELSE stream
    /\ UNCHANGED <<config, engine, shutdown_signal, main_pc, playback_started,
                   play_pc, stream_path, sig_pc, sigint_pc, sigterm_pending, gst_pc, hist>>

\* Drop for AudioPlayback: stop(), and the object is gone.
ApDrop ==
    /\ deployment = "api"
    /\ main_pc = "loop"
    /\ cb_pc = "idle"
    /\ stream' = IF stream = "playing" THEN "released" ELSE stream
    /\ main_pc' = "stopped"
    /\ UNCHANGED <<config, engine, shutdown_signal, playback_started, play_pc,
                   stream_path, sig_pc, sigint_pc, sigterm_pending, gst_pc, hist>>

\* --------------------------------------------------- single-slot receiver
\* src/gstreamer-audio-receiver: latest_audio is a Mutex<Option<Vec<u8>>>,
\* written <<>> for None and <<p>> for Some(p); pending_lock is its mutex.

\* Mutant of StoreLatest: a buffer not yet taken is kept.
StoreLatestKeepOlder(slot, p) == IF slot = <<>> THEN <<p>> ELSE slot

\* *guard = Some(audio_data)
StoreLatest(slot, p) == <<p>>

\* g.take(): the value and what is left in the slot.
TakeLatest(slot) == <<slot, <<>>>>

\* appsink new_sample: audio_data = map.as_slice().to_vec(), then
\* latest_audio_clone.lock().
SlotNewSample(payload) ==
    /\ ProcessRuns
    /\ deployment = "slot"
    /\ main_pc \in {"loop", "stop_pipeline"}
    /\ prod_pc = "idle"
    /\ hist.events < MaxEvents
    /\ prod_data' = [id |-> hist.produced + 1, data |-> payload]
    /\ hist' = [hist EXCEPT !.produced = @ + 1, !.events = @ + 1,
                            !.log = Append(@, prod_data')]
    /\ IF pending_lock = "free"
       THEN prod_pc' = "push_pending" /\ pending_lock' = "producer"
       ELSE prod_pc' = "lock_pending" /\ UNCHANGED pending_lock
    /\ UNCHANGED <<config, audio_queue, pending_audio, audio_buffer, queue_lock,
                   buffer_lock, tick_pc, sent, cb_pc, data>>

\* *guard = Some(audio_data); the guard is dropped; Ok(FlowSuccess::Ok).
SlotStore ==
    /\ ProcessRuns
    /\ deployment = "slot"
    /\ prod_pc = "push_pending"
    /\ pending_audio' = StoreLatest(pending_audio, prod_data)
    /\ pending_lock' = DropGuard(pending_lock)
    /\ prod_pc' = "idle"
    /\ hist' = [hist EXCEPT !.pushed_pending = @ + 1]
    /\ UNCHANGED <<config, audio_queue, audio_buffer, queue_lock, buffer_lock,
                   prod_data, tick_pc, sent, cb_pc, data>>

\* Event::Input "tick": the handler reaches latest_audio.lock().
SlotTickEvent ==
    /\ ProcessRuns
    /\ deployment = "slot"
    /\ main_pc = "loop"
    /\ tick_pc = "idle"
    /\ hist.events < MaxEvents
    /\ IF pending_lock = "free"
       THEN tick_pc' = "drain" /\ pending_lock' = "tick"
       ELSE tick_pc' = "lock_pending" /\ UNCHANGED pending_lock
    /\ hist' = [hist EXCEPT !.ticks = @ + 1, !.events = @ + 1]
    /\ UNCHANGED <<config, audio_queue, pending_audio, audio_buffer, queue_lock,
                   buffer_lock, prod_pc, prod_data, sent, cb_pc, data>>

\* guard.and_then(|mut g| g.take()), the guard is dropped, and
\* node.send_output of the buffer if there was one.
SlotTake ==
    /\ ProcessRuns
    /\ deployment = "slot"
    /\ tick_pc = "drain"
    /\ LET taken == TakeLatest(pending_audio)
       IN /\ pending_audio' = taken[2]
          /\ sent' = IF taken[1] # <<>> THEN taken[1][1].data ELSE sent
          /\ hist' = [hist EXCEPT
                        !.drained = @ + Len(taken[1]),
                        !.sends = IF taken[1] # <<>> THEN @ + 1 ELSE @,
                        !.forwarded = IF taken[1] # <<>>
                                      THEN Append(@, taken[1][1].id) ELSE @]
    /\ pending_lock' = DropGuard(pending_lock)
    /\ tick_pc' = "idle"
    /\ UNCHANGED <<config, audio_queue, audio_buffer, queue_lock, buffer_lock,
                   prod_pc, prod_data, cb_pc, data>>

\* Event::Stop: the event loop ends (its only cleanup is the pipeline's).
SlotBreak ==
    /\ deployment = "slot"
    /\ main_pc = "loop"
    /\ tick_pc = "idle"
    /\ main_pc' = "stop_pipeline"
    /\ UNCHANGED <<config, engine, shutdown_signal, playback_started, play_pc,
                   stream, stream_path, sig_pc, sigint_pc, sigterm_pending,
                   gst_pc, hist>>

\* pipeline.set_state(Null), which waits for a new_sample callback in
\* progress, then Ok(()); or its error, returned by `?`.
SlotStopPipeline ==
    /\ deployment = "slot"
    /\ main_pc = "stop_pipeline"
    /\ prod_pc = "idle"
    /\ main_pc' \in {"stopped", "failed"}
    /\ UNCHANGED <<config, engine, shutdown_signal, playback_started, play_pc,
                   stream, stream_path, sig_pc, sigint_pc, sigterm_pending,
                   gst_pc, hist>>

\* The programs from their start: the sink and the receiver at the top of
\* their event loops (the receiver has spawned its playback thread if
\* playback is enabled), and an owner of an AudioPlayback whose queue
\* already holds packets.
LifeScenarios ==
    [deployment : {"sink"}, enabled : {TRUE}, device : {TRUE},
     host : HostConfigs, backlog : {0}]
    \cup [deployment : {"receiver"}, enabled : {TRUE}, device : {TRUE},
          host : {StereoI16}, backlog : {0}]
    \cup [deployment : {"sink", "receiver"}, enabled : {FALSE}, device : {TRUE},
          host : {MonoF32}, backlog : {0}]
    \cup [deployment : {"sink", "receiver"}, enabled : {TRUE}, device : {FALSE},
          host : {MonoF32}, backlog : {0}]
    \cup [deployment : {"api"}, enabled : {TRUE}, device : BOOLEAN,
          host : {MonoF32}, backlog : {3}]

LifeInit ==
    /\ \E sc \in LifeScenarios :
         /\ deployment = sc.deployment
         /\ enable_playback = sc.enabled
         /\ device_available = sc.device
         /\ output_channels = sc.host.channels
         /\ sample_format = sc.host.format
         /\ audio_queue = [i \in 1..sc.backlog |-> BacklogPacket(i)]
         /\ hist = InitHist(sc.backlog)
         /\ playback_started = (sc.deployment = "receiver" /\ sc.enabled)
         /\ play_pc = IF sc.deployment = "receiver" /\ sc.enabled
                      THEN "setup" ELSE "none"
         /\ sig_pc = IF sc.deployment = "receiver" THEN "check" ELSE "none"
         /\ sigint_pc = IF sc.deployment = "api" THEN "none" ELSE "armed"
    /\ input_sample_rate_hz = 20
    /\ device_rate_hz \in DeviceRates
    /\ pending_audio = <<>>
    /\ audio_buffer = <<>>
    /\ queue_lock = "free"
    /\ pending_lock = "free"
    /\ buffer_lock = "free"
    /\ prod_pc = "idle"
    /\ prod_data = <<>>
    /\ tick_pc = "idle"
    /\ sent = <<>>
    /\ cb_pc = "idle"
    /\ data = <<>>
    /\ shutdown_signal = FALSE
    /\ main_pc = "loop"
    /\ stream = "none"
    /\ stream_path = "none"
    /\ sigterm_pending = FALSE
    /\ gst_pc = IF deployment = "receiver" THEN "poll" ELSE "none"

\* The inputs of the lifecycle runs: two payloads for the sink and one for
\* the receiver, and a host that asks for MaxFrames frames each time.
LifeProduce ==
    \/ \E payload \in {<<5, 0, 7>>, <<200, 0, 246, 255>>} :
          SinkAudioInput(payload, "S16LE", 1)
    \/ NewSample(<<200, 0, 246, 255>>)
LifeInvoke == CallbackInvoke(MaxFrames)

LifeNext ==
    \/ LifeProduce
    \/ SinkLockQueue
    \/ SinkPushQueue
    \/ AppsinkLockPending
    \/ AppsinkPushPending
    \/ AppsinkLockQueue
    \/ AppsinkPushQueue
    \/ TickEvent
    \/ TickLockPending
    \/ TickDrain
    \/ LifeInvoke
    \/ CallbackLockQueue
    \/ CallbackRefill
    \/ CallbackSilence
    \/ CallbackEmit
    \/ PlaybackSetup
    \/ PlaybackPoll
    \/ PlaybackWake
    \/ PlaybackReturn
    \/ MainBreak
    \/ MainFails
    \/ MainSeesShutdown
    \/ MainCleanupStore
    \/ MainJoinPlayback
    \/ MainStopPipeline
    \/ MainJoinSignal
    \/ SigCheck
    \/ SigtermArrives
    \/ SigintReceiver
    \/ SigintSink
    \/ SinkHandlerExit
    \/ ApStart
    \/ ApStop
    \/ ApDrop

LifeSpec == LifeInit /\ [][LifeNext]_vars

\* The lifecycle with every thread that can take a step taking one
\* eventually: the playback thread, the host's callback thread and the
\* producer inside its critical section.
LifeFairness ==
    /\ WF_vars(PlaybackSetup \/ PlaybackPoll \/ PlaybackWake \/ PlaybackReturn)
    /\ WF_vars(CallbackLockQueue \/ CallbackRefill \/ CallbackSilence
                  \/ CallbackEmit)
    /\ WF_vars(SinkLockQueue \/ SinkPushQueue \/ AppsinkLockPending
                  \/ AppsinkPushPending \/ AppsinkLockQueue \/ AppsinkPushQueue)
    /\ WF_vars(TickLockPending \/ TickDrain)
LifeLiveSpec == LifeInit /\ [][LifeNext]_vars /\ LifeFairness

\* The receiver from its start to the end of main, with its message task,
\* and with main's cleanup steps and the SIGTERM thread taking a step
\* whenever they can.
CleanupInit == LifeInit /\ deployment = "receiver"
CleanupNext ==
    \/ NewSample(<<200, 0, 246, 255>>)
    \/ AppsinkLockPending
    \/ AppsinkPushPending
    \/ AppsinkLockQueue
    \/ AppsinkPushQueue
    \/ TickEvent
    \/ TickLockPending
    \/ TickDrain
    \/ LifeInvoke
    \/ CallbackLockQueue
    \/ CallbackRefill
    \/ CallbackSilence
    \/ CallbackEmit
    \/ PlaybackSetup
    \/ PlaybackPoll
    \/ PlaybackWake
    \/ PlaybackReturn
    \/ MainBreak
    \/ MainFails
    \/ MainSeesShutdown
    \/ MainCleanupStore
    \/ MainJoinPlayback
    \/ MainStopPipeline
    \/ MainStopPipelineFails
    \/ MainJoinSignal
    \/ SigCheck
    \/ SigtermArrives
    \/ SigintReceiver
    \/ GstPoll
CleanupFairness ==
    /\ LifeFairness
    /\ WF_vars(MainCleanupStore \/ MainJoinPlayback \/ MainStopPipeline
                  \/ MainStopPipelineFails \/ MainJoinSignal)
    /\ WF_vars(SigCheck)
    /\ WF_vars(GstPoll)
CleanupSpec == CleanupInit /\ [][CleanupNext]_vars /\ CleanupFairness

\* The single-slot receiver from its start: buffers of no, one and two
\* samples arrive between ticks, until a stop event.  It has no playback,
\* no shutdown signal and no signal thread.
SlotPayloads == {<<>>, <<5, 0, 7>>, <<200, 0, 246, 255>>}
SlotInit ==
    /\ deployment = "slot"
    /\ enable_playback = FALSE
    /\ device_available = FALSE
    /\ output_channels = 1
    /\ sample_format = "F32"
    /\ input_sample_rate_hz = 20
    /\ device_rate_hz \in DeviceRates
    /\ audio_queue = <<>>
    /\ pending_audio = <<>>
    /\ audio_buffer = <<>>
    /\ queue_lock = "free"
    /\ pending_lock = "free"
    /\ buffer_lock = "free"
    /\ prod_pc = "idle"
    /\ prod_data = <<>>
    /\ tick_pc = "idle"
    /\ sent = <<>>
    /\ cb_pc = "idle"
    /\ data = <<>>
    /\ shutdown_signal = FALSE
    /\ main_pc = "loop"
    /\ playback_started = FALSE
    /\ play_pc = "none"
    /\ stream = "none"
    /\ stream_path = "none"
    /\ sig_pc = "none"
    /\ sigint_pc = "none"
    /\ sigterm_pending = FALSE
    /\ gst_pc = "none"
    /\ hist = InitHist(0)
SlotProduce == \E payload \in SlotPayloads : SlotNewSample(payload)
SlotNext ==
    \/ SlotProduce
    \/ AppsinkLockPending
    \/ SlotStore
    \/ SlotTickEvent
    \/ TickLockPending
    \/ SlotTake
    \/ SlotBreak
    \/ SlotStopPipeline
SlotSpec == SlotInit /\ [][SlotNext]_vars

\* The sink from its start with packets whose sample_rate parameter varies
\* from packet to packet: 10, 20, 40 and a text that is no u32.  Until the
\* playback thread is spawned there is no source rate (written 0).
PacketRates == {10, 20, 40, 0 - 1}
RateInit ==
    /\ deployment = "sink"
    /\ enable_playback = TRUE
    /\ device_available = TRUE
    /\ output_channels = 1
    /\ sample_format = "F32"
    /\ input_sample_rate_hz = 0
    /\ device_rate_hz \in DeviceRates
    /\ audio_queue = <<>>
    /\ pending_audio = <<>>
    /\ audio_buffer = <<>>
    /\ queue_lock = "free"
    /\ pending_lock = "free"
    /\ buffer_lock = "free"
    /\ prod_pc = "idle"
    /\ prod_data = <<>>
    /\ tick_pc = "idle"
    /\ sent = <<>>
    /\ cb_pc = "idle"
    /\ data = <<>>
    /\ shutdown_signal = FALSE
    /\ main_pc = "loop"
    /\ playback_started = FALSE
    /\ play_pc = "none"
    /\ stream = "none"
    /\ stream_path = "none"
    /\ sig_pc = "none"
    /\ sigint_pc = "armed"
    /\ sigterm_pending = FALSE
    /\ gst_pc = IF deployment = "receiver" THEN "poll" ELSE "none"
    /\ hist = InitHist(0)
RateProduce ==
    \E sample_rate \in PacketRates : SinkAudioRated(<<200, 0, 246, 255>>, sample_rate)
RateNext ==
    \/ RateProduce
    \/ SinkLockQueue
    \/ SinkPushQueue
    \/ LifeInvoke
    \/ CallbackLockQueue
    \/ CallbackRefill
    \/ CallbackSilence
    \/ CallbackEmit
    \/ PlaybackSetup
    \/ PlaybackPoll
    \/ PlaybackWake
    \/ PlaybackReturn
    \/ MainBreak
    \/ MainSeesShutdown
    \/ MainCleanupStore
    \/ MainJoinPlayback
    \/ SigintSink
    \/ SinkHandlerExit
RateSpec == RateInit /\ [][RateNext]_vars

\* ------------------------------------------------------- history helpers
\* The i-th packet handed to the queues, backlog included.
ProducedPacket(i) ==
    IF i <= hist.backlog THEN BacklogPacket(i) ELSE hist.log[i - hist.backlog]

\* The last n of the first m packets produced, in arrival order.
LastProduced(m, n) == [i \in 1..n |-> ProducedPacket(m - n + i)]

\* The slots of frame f of the output slice.
FrameSlots(f) == {data[(f - 1) * output_channels + c] : c \in 1..output_channels}

\* A callback has run and returned.
Returned == cb_pc = "idle" /\ hist.callbacks > 0

\* The steps each thread can take by itself.
ProducerStep ==
    \/ SinkLockQueue \/ SinkPushQueue \/ AppsinkLockPending
    \/ AppsinkPushPending \/ AppsinkLockQueue \/ AppsinkPushQueue
TickStep == TickLockPending \/ TickDrain
CallbackStep ==
    \/ CallbackLockQueue \/ CallbackRefill \/ CallbackSilence \/ CallbackEmit

\* The lifecycle state of the engine, read off the program state: Stopped
\* once main has returned or the process has exited (for an AudioPlayback:
\* once its stream has been dropped), ShuttingDown from the moment the
\* shutdown signal is set, Running while a stream plays, Idle before.
Lifecycle ==
    IF main_pc \in {"stopped", "exited", "failed", "panicked"} THEN "Stopped"
    ELSE IF deployment = "api"
    THEN CASE stream = "playing" -> "Running"
           [] stream = "released" -> "Stopped"
           [] OTHER -> "Idle"
    ELSE IF shutdown_signal THEN "ShuttingDown"
    ELSE IF stream = "playing" THEN "Running"
    ELSE "Idle"

Rank(state) ==
    CASE state = "Idle" -> 0
      [] state = "Running" -> 1
      [] state = "ShuttingDown" -> 2
      [] OTHER -> 3

\* The event whose packet the callback popped last.
PoppedInput == hist.raw[hist.last_popped]

\* The bytes per sample the claims give each supported format.
ByteWidth(format) ==
    CASE format = "S16LE" -> 2
      [] format \in {"S32LE", "F32LE"} -> 4
      [] OTHER -> 1

\* The samples a pop step appended to the ring buffer, as 16-bit values.
Appended(before, after) ==
    [k \in 1..(Len(after) - Len(before)) |-> after[Len(before) + k].v \div 2]

\* Sum over the channels of frame k of a 16-bit payload, and of the high
\* and low halves of the samples of a 32-bit payload.
RECURSIVE SumS16(_, _, _, _)
SumS16(p, k, n, ch) ==
    IF ch = 0 THEN 0
    ELSE I16FromLe(p[(k - 1) * 2 * n + 2 * ch - 1], p[(k - 1) * 2 * n + 2 * ch])
         + SumS16(p, k, n, ch - 1)
RECURSIVE SumHighS32(_, _, _, _)
SumHighS32(p, k, n, ch) ==
    IF ch = 0 THEN 0
    ELSE I32High(p[(k - 1) * 4 * n + 4 * ch - 1], p[(k - 1) * 4 * n + 4 * ch])
         + SumHighS32(p, k, n, ch - 1)
RECURSIVE SumLowS32(_, _, _, _)
SumLowS32(p, k, n, ch) ==
    IF ch = 0 THEN 0
    ELSE I32Low(p[(k - 1) * 4 * n + 4 * ch - 3], p[(k - 1) * 4 * n + 4 * ch - 2])
         + SumLowS32(p, k, n, ch - 1)

\* The ring values a pop step appended to the ring buffer.
AppendedValues(before, after) ==
    [k \in 1..(Len(after) - Len(before)) |-> after[Len(before) + k].v]

\* The builder the claim gives each host format.
ExpectedPath(fmt) ==
    IF fmt = "F32" THEN "f32"
    ELSE IF fmt \in {"I16", "U16"} THEN "i16"
    ELSE "f32"

\* ------------------------------------------------------------------ claims

C2_QueueLengthBounded ==
    /\ Len(audio_queue) <= QueueMax(deployment)
    /\ Len(pending_audio) <= PendingQueueMax
    /\ deployment = "sink" => Len(audio_queue) <= SinkQueueMax
    /\ deployment = "receiver" => Len(audio_queue) <= PlaybackQueueMax

\* C2 witness: the sink completed an enqueue onto its full queue of 100.
C2_EnqueuedOntoFullQueue ==
    /\ deployment = "sink"
    /\ prod_pc = "idle"
    /\ hist.pushed >= hist.backlog + 2
    /\ hist.pushed - hist.popped > SinkQueueMax
    /\ Len(audio_queue) = SinkQueueMax

\* C3: with nothing dequeued, a queue that received more packets than its
\* maximum holds exactly the last `maximum` packets enqueued, in arrival order.
C3_KeepsMostRecent ==
    /\ (hist.popped = 0 /\ hist.pushed > QueueMax(deployment))
          => audio_queue = LastProduced(hist.pushed, QueueMax(deployment))
    /\ (hist.drained = 0 /\ hist.ticks = 0 /\ deployment = "receiver"
           /\ hist.pushed_pending > PendingQueueMax)
          => pending_audio = LastProduced(hist.pushed_pending, PendingQueueMax)

\* C3 witness: the receiver's pending queue took its 201st packet with no
\* tick in between, and the playback queue its 201st with no callback.
C3_OverfilledUndrained ==
    /\ deployment = "receiver"
    /\ hist.popped = 0 /\ hist.drained = 0 /\ hist.ticks = 0
    /\ hist.pushed_pending = PendingQueueMax + 1
    /\ hist.pushed = PendingQueueMax + 1
    /\ Head(pending_audio).id = 2
    /\ Head(audio_queue).id = PendingQueueMax + 1 - PlaybackQueueMax + 1

\* C4: a callback whose ring buffer, after refill, is below frames_needed and
\* below min_prefill writes zero to every one of its frames_needed * channels
\* slots.
C4_SilenceWhenBelowPrefill ==
    (Returned /\ hist.refilled_len < FramesNeeded
              /\ hist.refilled_len < device_rate_hz \div PrefillDivisor)
       => /\ Len(data) = FramesNeeded * output_channels
          /\ \A i \in 1..Len(data) : data[i] = ZeroSlot

\* C4 witness: silence on the integer path while a sample is buffered.
C4_SilentWithSampleBuffered ==
    /\ Returned
    /\ OutputPath(sample_format) = "i16"
    /\ hist.refilled_len = 1
    /\ FramesNeeded > 1

\* C5 (as stated): the callback never waits for a lock another thread holds:
\* whenever it is inside an invocation it can take its next step.
C5_CallbackNeverWaits == cb_pc # "idle" => ENABLED CallbackStep

\* C6 (as stated): no Packet Queue operation waits on another thread: a
\* producer inside its enqueue and the tick handler inside its drain can
\* always take their next step, and so can the callback at its pop.
C6_NoQueueOperationBlocks ==
    /\ prod_pc # "idle" => ENABLED ProducerStep
    /\ tick_pc # "idle" => ENABLED TickStep
    /\ cb_pc = "refill" => ENABLED CallbackStep

\* C7: packets are popped in arrival order and appended in that order, the
\* samples a callback writes are ring samples in the order of their append,
\* each later than every sample written before, and none still buffered.
C7_OrderPreserved ==
    /\ \A i \in 1..Len(audio_queue) :
          /\ audio_queue[i].id > hist.last_popped
          /\ i > 1 => audio_queue[i].id > audio_queue[i - 1].id
    /\ \A i \in 1..Len(audio_buffer) :
          /\ audio_buffer[i].pkt <= hist.last_popped
          /\ audio_buffer[i].seq > hist.last_emitted
          /\ i > 1 => /\ audio_buffer[i].seq > audio_buffer[i - 1].seq
                      /\ audio_buffer[i].pkt >= audio_buffer[i - 1].pkt
    /\ Returned =>
          \A i \in 1..Len(data) :
             data[i].src > 0 =>
                /\ data[i].src > hist.prev_emitted
                /\ data[i].src <= hist.last_emitted
                /\ \A j \in 1..(i - 1) :
                      (data[j].src > 0 /\ (j - 1) \div output_channels
                                            < (i - 1) \div output_channels)
                         => data[j].src < data[i].src

\* C7 witness: a second callback wrote ring samples of a later packet while
\* another packet waits in the queue.
C7_TwoCallbacksEmitted ==
    /\ Returned
    /\ hist.prev_emitted > 0
    /\ hist.last_emitted > hist.prev_emitted
    /\ FramesNeeded > 1
    /\ hist.popped > 1

\* C8: on the emission path all channel slots of a frame hold the same value.
C8_MonoDuplicated ==
    (Returned /\ ~(hist.refilled_len < FramesNeeded
                   /\ hist.refilled_len < device_rate_hz \div PrefillDivisor))
       => \A f \in 1..FramesNeeded :
             /\ Cardinality(FrameSlots(f)) = 1
             /\ \A slot \in FrameSlots(f) : slot.src >= 0

\* C8 witness: a three-channel frame holding a non-zero ring sample.
C8_MultiChannelFrameWritten ==
    /\ Returned
    /\ output_channels = 3
    /\ \E i \in 1..Len(data) : data[i].src > 0 /\ data[i].v # 0

\* C9 (as stated): the output of a callback is either all literal zeros or
\* all ring buffer samples.
C9_NeverPartialOutput ==
    Returned =>
       \/ \A i \in 1..Len(data) : data[i].src = 0
       \/ \A i \in 1..Len(data) : data[i].src > 0

\* C9 (amended): below frames_needed and below min_prefill the output is all
\* zeros; otherwise frame f is the f-th sample of the refilled ring buffer
\* while f <= its length, and zero beyond it.
C9_OutputShape ==
    Returned =>
       LET len == hist.refilled_len
       IN \A f \in 1..FramesNeeded : \A slot \in FrameSlots(f) :
             IF len < FramesNeeded /\ len < device_rate_hz \div PrefillDivisor
             THEN slot = ZeroSlot
             ELSE IF f <= len THEN slot.src = hist.appended - len + f
             ELSE slot = ZeroSlot

\* C9 witness: the ring buffer held min_prefill samples or more, fewer than
\* frames_needed, and the callback padded its output with zeros.
C9_PaddedOutput ==
    /\ Returned
    /\ hist.refilled_len >= device_rate_hz \div PrefillDivisor
    /\ hist.refilled_len < FramesNeeded
    /\ data[Len(data)] = ZeroSlot
    /\ data[1].src > 0

\* C10 (as stated): no callback writes ring samples while the ring buffer,
\* after refill, holds fewer than min_prefill samples.
C10_NoAudioBelowPrefill ==
    (Returned /\ hist.refilled_len < device_rate_hz \div PrefillDivisor)
       => \A i \in 1..Len(data) : data[i].src <= 0

\* C10 (amended): a callback that writes a ring sample had, after refill, at
\* least min_prefill samples or at least frames_needed samples.
C10_AudioOnlyWhenPrefilledOrEnough ==
    (Returned /\ \E i \in 1..Len(data) : data[i].src > 0)
       => \/ hist.refilled_len >= device_rate_hz \div PrefillDivisor
          \/ hist.refilled_len >= FramesNeeded

\* C10 witness: a sample is held back: the buffer kept its one sample, below
\* min_prefill and below frames_needed, and the callback wrote no ring sample.
C10_SampleHeldBack ==
    /\ Returned
    /\ Len(audio_buffer) = 1
    /\ hist.refilled_len = 1
    /\ FramesNeeded = 3
    /\ \A i \in 1..Len(data) : data[i].src = 0

\* C11: the packets in the playback queue are distinct and none of them has
\* been popped before; the ring samples are numbered in the order of their
\* append and come from popped packets; while the cap has evicted nothing,
\* every pushed packet is either in the queue or has been popped.
C11_ConsumedOnceState ==
    /\ \A k \in 1..Len(audio_queue) :
          /\ audio_queue[k].id > hist.last_popped
          /\ k < Len(audio_queue) => audio_queue[k].id < audio_queue[k + 1].id
    /\ \A k \in 1..Len(audio_buffer) :
          /\ audio_buffer[k].pkt <= hist.last_popped
          /\ audio_buffer[k].seq <= hist.appended
          /\ k < Len(audio_buffer) =>
                /\ audio_buffer[k].seq < audio_buffer[k + 1].seq
                /\ audio_buffer[k].pkt <= audio_buffer[k + 1].pkt
    /\ hist.pushed <= QueueMax(deployment) =>
          hist.pushed = Len(audio_queue) + hist.popped

\* C11: a step that pops a packet takes the front packet, which was never
\* popped before, out of the queue, and appends its decoded and resampled
\* samples to the ring buffer once.
C11_ConsumedOnceStep ==
    hist'.popped # hist.popped =>
        LET p == Head(audio_queue)
            n == Len(Resample(DecodeS16Mono(p.data), input_sample_rate_hz,
                              device_rate_hz))
        IN /\ hist'.popped = hist.popped + 1
           /\ p.id > hist.last_popped
           /\ hist'.last_popped = p.id
           /\ audio_queue' = Tail(audio_queue)
           /\ Len(audio_buffer') = Len(audio_buffer) + n
           /\ hist'.appended = hist.appended + n
           /\ Cardinality({k \in 1..Len(audio_buffer') :
                               audio_buffer'[k].pkt = p.id}) = n
           /\ \A k \in 1..Len(audio_buffer) : audio_buffer'[k] = audio_buffer[k]

\* C11: every packet placed in the playback queue is decoded at most once
\* and never duplicated, and with a host that keeps invoking the callback
\* every packet leaves the queue: eventually the queue is empty for good.
C11_ConsumedExactlyOnce ==
    /\ []C11_ConsumedOnceState
    /\ [][C11_ConsumedOnceStep]_vars
    /\ <>[](audio_queue = <<>>)

\* Two packets were popped and decoded, the run's events are over, the queue
\* is empty and samples of the last packet are still in the ring buffer.
C11_DrainedAfterTwoPops ==
    /\ hist.popped >= 2
    /\ hist.events >= MaxEvents
    /\ audio_queue = <<>>
    /\ prod_pc = "idle"
    /\ cb_pc = "idle"
    /\ audio_buffer # <<>>
    /\ audio_buffer[Len(audio_buffer)].pkt = hist.last_popped

\* C12: once the shutdown signal is set the polling loop starts no further
\* sleep, and a playback thread that is in the loop leaves it, returns and
\* releases its stream (unless the process has exited first), with no
\* further step of main needed.
C12_ShutdownLiveAndBounded ==
    /\ [][(shutdown_signal /\ play_pc = "poll" /\ play_pc' # play_pc)
             => play_pc' = "drop"]_vars
    /\ (shutdown_signal /\ play_pc \in {"setup", "poll", "sleep", "drop"})
          ~> \/ play_pc = "returned" /\ stream = "released"
             \/ play_pc = "failed"
             \/ main_pc = "exited"

\* The receiver's playback thread has returned and released its stream after
\* a SIGINT, while main is still in its event loop.
C12_ReturnedOnSignalAlone ==
    /\ shutdown_signal
    /\ play_pc = "returned"
    /\ stream = "released"
    /\ main_pc = "loop"
    /\ hist.callbacks > 0

\* C13: a callback invocation that began after the shutdown signal was set
\* pops no packet from the playback queue.
C13_NoRefillAfterSignal ==
    [][hist'.popped > hist.popped => ~hist.after_signal]_vars

\* C14: on the shutdown paths (Stop event, end of the event stream, SIGINT,
\* SIGTERM) the process is Stopped (main has returned from its cleanup or
\* the handler has exited the process) only with its playback thread
\* joined, the stream released and, in the receiver, the signal thread
\* joined.
C14_StoppedOnlyAfterJoin ==
    (deployment # "api" /\ main_pc \in {"stopped", "exited"}) =>
        /\ play_pc \in {"none", "returned", "failed"}
        /\ stream # "playing"
        /\ deployment = "receiver" => sig_pc = "exited"

\* C15: in run_audio_playback_thread a playing stream is released only by the
\* return that follows the loop's own read of the shutdown signal as true,
\* and the signal is true when it happens.
C15_ReleasedOnlyAfterObserved ==
    [][(deployment # "api" /\ stream = "playing" /\ stream' # "playing")
          => /\ play_pc = "drop"
             /\ play_pc' = "returned"
             /\ shutdown_signal
             /\ stream' = "released"]_vars

\* The sink has stopped through its cleanup: the playback thread returned,
\* its stream was released, main joined it.
C15_SinkStoppedAfterPlaying ==
    /\ deployment = "sink"
    /\ main_pc = "stopped"
    /\ play_pc = "returned"
    /\ stream = "released"
    /\ hist.outcome = "emit"

\* C16: the lifecycle state never goes back, and nothing happens to the
\* stream, the callback or the queue once it is Stopped.
C16_LifecycleForwardOnly ==
    [][/\ Rank(Lifecycle') >= Rank(Lifecycle)
       /\ Lifecycle = "Stopped" => UNCHANGED <<stream, cb_pc, audio_queue>>]_vars

\* C17: the shutdown signal starts false and no step takes it from true to
\* false: every write writes true.
C17_SignalMonotonic ==
    /\ shutdown_signal = FALSE
    /\ [][shutdown_signal => shutdown_signal']_vars

\* The receiver's signal was stored by the SIGINT handler and stored again
\* by the cleanup.
C17_StoredTwice ==
    /\ deployment = "receiver"
    /\ shutdown_signal
    /\ sigint_pc = "done"
    /\ main_pc \in {"join_playback", "stop_pipeline", "join_signal", "stopped"}

\* C18: without an output device no stream is created, no callback runs, the
\* lifecycle never enters Running, no packet leaves the playback queue, and
\* a start that was attempted has returned the error.
C18_NoDeviceNoStart ==
    ~device_available =>
        /\ stream = "none"
        /\ stream_path = "none"
        /\ cb_pc = "idle"
        /\ hist.callbacks = 0
        /\ hist.popped = 0
        /\ Lifecycle # "Running"
        /\ play_pc \in {"none", "setup", "failed"}
        /\ play_pc = "failed" => hist.start_err
        /\ (deployment = "api" /\ hist.events > 0) => hist.start_err

\* Without a device the start has failed and packets enqueued since then
\* sit in the playback queue.
C18_FailedStartQueueKept ==
    /\ ~device_available
    /\ deployment = "sink"
    /\ play_pc = "failed"
    /\ hist.start_err
    /\ Len(audio_queue) >= 2

\* C19: the stream of run_audio_playback_thread is built by the float builder
\* for F32, by the integer builder for I16 and U16, by the float builder for
\* every other host format, and the choice never changes afterwards.
C19_OutputPathByFormat ==
    /\ [](deployment # "api" /\ stream_path # "none"
            => stream_path = ExpectedPath(sample_format))
    /\ [][stream_path # "none" => stream_path' = stream_path]_vars

\* A host with an unexpected format (U8) has had frames written by the
\* float path.
C19_FallbackEmitted ==
    /\ sample_format = "U8"
    /\ stream_path = "f32"
    /\ hist.outcome = "emit"

\* C20: with playback disabled no playback thread is spawned, no stream is
\* opened, no callback runs, and the playback queue never holds a packet.
C20_DisabledDoesNothing ==
    ~enable_playback =>
        /\ play_pc = "none"
        /\ ~playback_started
        /\ stream = "none"
        /\ audio_queue = <<>>
        /\ queue_lock = "free"
        /\ prod_pc \notin {"lock_queue", "push_queue"}
        /\ hist.pushed = 0
        /\ hist.callbacks = 0

\* With playback disabled the sink has received two packets and is back at
\* the top of its loop.
C20_PacketsDiscarded ==
    /\ ~enable_playback
    /\ deployment = "sink"
    /\ hist.produced >= 2
    /\ prod_pc = "idle"

\* C21: the tick drain is atomic and order-preserving.  The pending queue is
\* only touched under its mutex; it always holds whole packets, the most
\* recently enqueued ones in arrival order; a drain step empties it and
\* sends the bytes of all its packets concatenated in arrival order (nothing
\* on an empty queue); and with no eviction by the cap every packet enqueued
\* is either still queued or was drained by exactly one tick.
C21_PendingWhole ==
    deployment = "receiver" =>
      /\ pending_audio = LastProduced(hist.pushed_pending, Len(pending_audio))
      /\ hist.drained + Len(pending_audio) <= hist.pushed_pending
      /\ hist.pushed_pending <= PendingQueueMax
            => hist.drained + Len(pending_audio) = hist.pushed_pending
      /\ tick_pc = "drain" => pending_lock = "tick"
      /\ prod_pc = "push_pending" => pending_lock = "producer"
C21_DrainStep ==
    (tick_pc = "drain" /\ tick_pc' = "idle") =>
      /\ pending_audio' = <<>>
      /\ pending_lock' = "free"
      /\ hist'.drained = hist.drained + Len(pending_audio)
      /\ IF pending_audio = <<>>
         THEN sent' = sent /\ hist'.sends = hist.sends
         ELSE /\ hist'.sends = hist.sends + 1
              /\ \E q \in {LastProduced(hist.pushed_pending, Len(pending_audio))} :
                    sent' = ConcatRange(q, 1, Len(q))
C21_DrainAtomicInOrder == []C21_PendingWhole /\ [][C21_DrainStep]_vars

\* C21 witness: one tick drained two packets into one output while a third
\* packet's enqueue waited for the lock.
C21_TwoDrainedOneWaiting ==
    /\ deployment = "receiver"
    /\ hist.backlog = 0
    /\ hist.ticks = 1 /\ hist.drained = 2 /\ hist.sends = 1
    /\ tick_pc = "idle"
    /\ prod_pc = "lock_pending"
    /\ pending_audio = <<>>
    /\ sent = hist.log[1].data \o hist.log[2].data
    /\ Len(hist.log[1].data) > 0 /\ Len(hist.log[2].data) > 0
\* C22: for each of the five supported formats and every channel count
\* N >= 1, the packet popped by a refill adds exactly
\* floor(byte_length / (byte_width * N)) samples to the ring buffer (source
\* and device rate equal, so the resampler adds or removes nothing).
C22_DecodedFrameCount ==
    [][(hist'.popped = hist.popped + 1
          /\ input_sample_rate_hz = device_rate_hz
          /\ PoppedInput'.format \in {"S16LE", "S32LE", "F32LE", "S8", "U8"}
          /\ PoppedInput'.channels >= 1)
       => Len(audio_buffer') - Len(audio_buffer) =
            Len(PoppedInput'.payload)
               \div (ByteWidth(PoppedInput'.format) * PoppedInput'.channels)]_vars
C24_ZeroBytesDecodeToZero ==
    [][(hist'.popped = hist.popped + 1
          /\ \A j \in 1..Len(PoppedInput'.payload) : PoppedInput'.payload[j] = 0)
       => \A k \in (Len(audio_buffer) + 1)..Len(audio_buffer') :
             audio_buffer'[k].v = 0]_vars

\* C24 witness: 13 zero bytes arrived as two-channel F32LE and were decoded
\* to one sample, a zero.
C24_ZeroFloatFrameDecoded ==
    /\ cb_pc = "refill"
    /\ hist.popped = 1
    /\ PoppedInput = [payload |-> [j \in 1..13 |-> 0], format |-> "F32LE",
                      channels |-> 2]
    /\ input_sample_rate_hz = device_rate_hz
    /\ Len(audio_buffer) = 1
    /\ audio_buffer[1].v = 0
\* C25: decoding never fails.  Whatever the payload, the format string and
\* the channel count of an audio event, the conversion does not panic, and
\* a popped packet whose payload was empty or shorter than one sample adds
\* nothing to the ring buffer.
C25_DecodeNeverFails ==
    /\ main_pc # "panicked"
    /\ (cb_pc = "refill" /\ hist.popped = 1 /\ Len(hist.raw) = 1
          /\ Len(hist.raw[1].payload) < 2)
       => audio_buffer = <<>>
\* C26: with the source rate equal to the device rate the resampler is the
\* identity: what a refill appends for a packet is the packet's decoded
\* samples, element for element (nothing for a packet with no sample).
C26_EqualRatesIdentity ==
    [][(hist'.popped = hist.popped + 1
          /\ input_sample_rate_hz = device_rate_hz)
       => AppendedValues(audio_buffer, audio_buffer')
            = DecodeS16Mono(ProducedPacket(hist'.last_popped).data)]_vars

\* C26 witness: at equal rates a packet of six samples, three of them
\* different and not zero, went through the resampler into the empty ring
\* buffer.
C26_SixSamplesUnchanged ==
    /\ cb_pc = "refill"
    /\ hist.popped = 1
    /\ input_sample_rate_hz = device_rate_hz
    /\ Len(audio_buffer) = 6
    /\ \A i, j \in {2, 4, 6} : i # j => audio_buffer[i].v # audio_buffer[j].v
    /\ \A i \in {2, 4, 6} : audio_buffer[i].v # 0
\* C27: for a source rate different from the device rate, the packet popped
\* by a refill adds round(n * Rd / Rs) samples to the ring buffer, n being
\* the number of samples of the packet (round: to the nearest integer, a
\* half away from zero); 960 samples from 48000 to 44100 Hz add 882, and a
\* packet with no sample adds none.
C27_ResampledLength ==
    [][(hist'.popped = hist.popped + 1
          /\ input_sample_rate_hz # device_rate_hz)
       => LET n == Len(Head(audio_queue).data) \div 2
          IN Len(audio_buffer') - Len(audio_buffer) =
               (2 * n * device_rate_hz + input_sample_rate_hz)
                  \div (2 * input_sample_rate_hz)]_vars

\* C28: at equal source and device rates one refill of a packet of n
\* complete 16-bit samples makes the ring buffer longer by exactly n, the
\* samples added at the back being the packet's samples in the packet's
\* order, each sample / 32768; the ring buffer keeps the order of arrival,
\* and the frames a callback writes are the samples at its front, in
\* order, unchanged on the float path.
C28_RingInOrder ==
    \A i \in 1..(Len(audio_buffer) - 1) :
        audio_buffer[i + 1].seq = audio_buffer[i].seq + 1
C28_RefillStep ==
    (hist'.popped = hist.popped + 1 /\ input_sample_rate_hz = device_rate_hz)
    => LET bytes == Head(audio_queue).data
           n == Len(bytes) \div 2
           base == Len(audio_buffer)
           Sample(k) == LET u == bytes[2 * k - 1] + 256 * bytes[2 * k]
                        IN IF u >= 32768 THEN u - 65536 ELSE u
       IN /\ Len(audio_buffer') = base + n
          /\ Take(audio_buffer', base) = audio_buffer
          /\ \A k \in 1..n :
                audio_buffer'[base + k].v * SampleDivisor = Sample(k) * RingUnit
C28_EmitStep ==
    (cb_pc = "refill" /\ cb_pc' = "idle" /\ hist'.outcome = "emit")
    => \A f \in 1..Min(FramesNeeded, Len(audio_buffer)) :
         \A c \in 1..output_channels :
            /\ data'[(f - 1) * output_channels + c].src = audio_buffer[f].seq
            /\ stream_path = "f32"
                 => data'[(f - 1) * output_channels + c].v = audio_buffer[f].v
C28_EqualRatesRefill ==
    []C28_RingInOrder /\ [][C28_RefillStep /\ C28_EmitStep]_vars

\* C28 witness: at equal rates a callback asked for two frames, refilled
\* the empty ring buffer from one packet of more than two samples and
\* wrote the packet's first two samples, which differ and are not zero.
C28_FirstTwoSamplesWritten ==
    /\ input_sample_rate_hz = device_rate_hz
    /\ cb_pc = "idle"
    /\ hist.outcome = "emit"
    /\ hist.popped = 1
    /\ hist.callbacks = 1
    /\ Len(data) = 2 * output_channels
    /\ data[1].src = 1
    /\ data[1 + output_channels].src = 2
    /\ data[1].v # 0
    /\ data[1 + output_channels].v # 0
    /\ data[1].v # data[1 + output_channels].v
    /\ Len(audio_buffer) > 0

\* C29: a callback that writes frames on the integer path writes, for the
\* ring buffer value v of each frame, clamp(v, -1.0, 1.0) * 32767 cut to
\* an integer (toward zero), which lies in [-32767, 32767]; on the float
\* path it writes v itself.
C29_Adapted(v, out) ==
    LET x == Max(0 - RingUnit, Min(RingUnit, v))
    IN /\ out \in (0 - I16Scale)..I16Scale
       /\ IF x >= 0
          THEN x * I16Scale - out * RingUnit \in 0..(RingUnit - 1)
          ELSE x * I16Scale - out * RingUnit \in (1 - RingUnit)..0
C29_OutputAdaptation ==
    [][(cb_pc = "refill" /\ cb_pc' = "idle" /\ hist'.outcome = "emit")
       => \A f \in 1..Min(FramesNeeded, Len(audio_buffer)) :
            \A c \in 1..output_channels :
               LET out == data'[(f - 1) * output_channels + c].v
                   v == audio_buffer[f].v
               IN IF stream_path = "i16" THEN C29_Adapted(v, out)
                  ELSE out = v]_vars

\* C29 witness: on the integer path a callback wrote the lowest value,
\* -32767, for a ring buffer value of -1.0 (a sample of -32768).
C29_LowestValueWritten ==
    /\ stream_path = "i16"
    /\ cb_pc = "idle"
    /\ hist.outcome = "emit"
    /\ data # <<>>
    /\ data[1].src > 0
    /\ data[1].v = 0 - I16Scale

\* C30: a packet is popped only inside a callback's refill loop, while the
\* ring buffer holds fewer than frames_needed samples and the packet queue
\* is not empty; and when the loop is over (the callback goes on to write
\* silence or frames) the packet queue is empty or the ring buffer holds
\* at least frames_needed samples.
C30_PopStep ==
    (hist'.popped # hist.popped \/ Len(audio_queue') < Len(audio_queue))
    => /\ cb_pc = "refill"
       /\ Len(audio_buffer) < FramesNeeded
       /\ audio_queue # <<>>
       /\ hist'.popped = hist.popped + 1
       /\ audio_queue' = Tail(audio_queue)
C30_LoopEnd ==
    (cb_pc = "refill" /\ cb_pc' # "refill")
    => (audio_queue = <<>> \/ Len(audio_buffer) >= FramesNeeded)
C30_RefillOnlyAsNeeded == [][C30_PopStep /\ C30_LoopEnd]_vars

\* C30 witness: a callback that found a backlog popped one packet, which
\* was enough for the frames asked for, and returned with the rest of the
\* backlog still in the packet queue.
C30_StoppedWithPacketsLeft ==
    /\ hist.backlog > 1
    /\ cb_pc = "idle"
    /\ hist.callbacks = 1
    /\ hist.outcome = "emit"
    /\ hist.popped = 1
    /\ hist.pushed = hist.backlog
    /\ audio_queue # <<>>

\* A callback step that leaves the refill loop on the emission path.
EmitStep == cb_pc = "refill" /\ cb_pc' = "idle" /\ hist'.outcome = "emit"

\* The frames written by an emitting callback are the first
\* min(frames_needed, available) ring buffer samples, in order.
WroteFront ==
    \A f \in 1..Min(FramesNeeded, Len(audio_buffer)) :
       \A c \in 1..output_channels :
          data'[(f - 1) * output_channels + c].src = audio_buffer[f].seq

C32_SilenceConsumesNothing ==
    [][(cb_pc = "refill" /\ cb_pc' = "idle"
          /\ \/ hist'.outcome = "silence"
             \/ (Len(audio_buffer) < FramesNeeded
                   /\ Len(audio_buffer) < device_rate_hz \div PrefillDivisor))
       => /\ hist'.outcome = "silence"
          /\ audio_buffer' = audio_buffer
          /\ \A i \in 1..Len(data') : data'[i].v = 0 /\ data'[i].src = 0]_vars

\* C32 witness: a callback returned silence and the one sample a refill
\* had put in the ring buffer is still there.
C32_PrefillKeptAfterSilence ==
    /\ cb_pc = "idle"
    /\ hist.outcome = "silence"
    /\ hist.popped > 0
    /\ hist.last_emitted = 0
    /\ Len(audio_buffer) = 1
    /\ audio_buffer[1].seq = 1

\* C33: whenever a callback returns the ring buffer holds at most
\* device_rate * 5 samples: a callback that returns silence leaves fewer
\* than device_rate / 10, and an emitting callback leaves the newest
\* device_rate * 5 (or all, if fewer) of the samples that were not
\* written.
C33_BoundedAtEveryReturn ==
    [][(cb_pc = "refill" /\ cb_pc' = "idle")
       => /\ Len(audio_buffer') <= device_rate_hz * RingSeconds
          /\ hist'.outcome \in {"silence", "emit"}
          /\ hist'.outcome = "silence"
                => Len(audio_buffer') < device_rate_hz \div PrefillDivisor
          /\ hist'.outcome = "emit"
                => LET rest == Drop(audio_buffer,
                                    Min(FramesNeeded, Len(audio_buffer)))
                       keep == Min(Len(rest), device_rate_hz * RingSeconds)
                   IN audio_buffer' = Drop(rest, Len(rest) - keep)]_vars

\* C33 witness: an emitting callback returned after its trim: more samples
\* than the capacity had been appended and not written, the ring buffer
\* holds exactly the capacity and its last sample is the newest appended.
C33_TrimmedToNewest ==
    /\ cb_pc = "idle"
    /\ hist.outcome = "emit"
    /\ hist.appended - hist.last_emitted > device_rate_hz * RingSeconds
    /\ Len(audio_buffer) = device_rate_hz * RingSeconds
    /\ audio_buffer[Len(audio_buffer)].seq = hist.appended

\* C34: a callback in its refill loop holds both locks; while it is there
\* nothing but its own pops changes the packet queue, each iteration takes
\* one packet off it (so there are at most as many iterations as packets
\* queued when the lock was taken, empty packets included); every step the
\* callback takes from the loop is its own, and it always reaches its
\* return.
C34_HoldsLocks ==
    cb_pc = "refill" => queue_lock = "callback" /\ buffer_lock = "callback"
C34_LoopStep ==
    (cb_pc = "refill" /\ cb_pc' = "refill")
    => /\ hist'.popped + Len(audio_queue') = hist.popped + Len(audio_queue)
       /\ hist'.popped \in {hist.popped, hist.popped + 1}
       /\ hist'.pushed = hist.pushed
C34_CallbackTerminates ==
    /\ []C34_HoldsLocks
    /\ [][C34_LoopStep]_vars
    /\ [](cb_pc = "refill"
            => ENABLED (CallbackRefill \/ CallbackSilence \/ CallbackEmit))
    /\ (cb_pc = "refill") ~> (cb_pc = "idle")

\* C34 witness: the first callback popped two packets that decoded to no
\* sample, found the queue empty and returned silence.
C34_TwoEmptyPacketsThenReturn ==
    /\ cb_pc = "idle"
    /\ hist.callbacks = 1
    /\ hist.popped = 2
    /\ hist.appended = 0
    /\ hist.outcome = "silence"
    /\ audio_queue = <<>>

\* C35: the callback holds the ring buffer lock only together with the
\* packet queue lock; nothing else ever holds the ring buffer lock; the
\* producer and the tick handler hold at most one lock at a time and only
\* while they are at the step that uses it; and whenever a thread waits for
\* a lock, some thread that is inside a handler can take a step.
Waits ==
    \/ prod_pc \in {"lock_queue", "lock_pending"}
    \/ tick_pc = "lock_pending"
    \/ cb_pc = "lock_queue"
C35_LockDiscipline ==
    /\ buffer_lock \in {"free", "callback"}
    /\ buffer_lock = "callback" => queue_lock = "callback"
    /\ queue_lock = "callback" <=> cb_pc = "refill"
    /\ queue_lock \in {"free", "callback", "producer"}
    /\ pending_lock \in {"free", "producer", "tick"}
    /\ queue_lock = "producer" <=> prod_pc = "push_queue"
    /\ pending_lock = "producer" <=> prod_pc = "push_pending"
    /\ pending_lock = "tick" <=> tick_pc = "drain"
    /\ ~(queue_lock = "producer" /\ pending_lock = "producer")
C35_DeadlockFree ==
    /\ []C35_LockDiscipline
    /\ [](Waits => ENABLED (ProducerStep \/ TickStep \/ CallbackStep))

\* C35 witness: all three threads are at a lock: the callback holds the
\* packet queue and the ring buffer, the appsink callback waits for the
\* packet queue, the tick handler holds the pending queue.
C35_ThreeThreadsAtLocks ==
    /\ deployment = "receiver"
    /\ cb_pc = "refill"
    /\ prod_pc = "lock_queue"
    /\ tick_pc = "drain"

\* C36: in the sink a playback thread is spawned only by the first audio
\* packet, with the source rate that packet's sample_rate parses to (48000
\* if it does not parse); playback_started never goes back to false, no
\* thread is spawned once it is true, and from then on no packet changes
\* the source rate.
C36_RateOfFirstPacket ==
    /\ playback_started <=> hist.produced > 0
    /\ playback_started <=> play_pc # "none"
    /\ playback_started =>
          input_sample_rate_hz =
             (IF hist.raw[1].sample_rate >= 0 THEN hist.raw[1].sample_rate
              ELSE 48000)
C36_StartStep ==
    /\ playback_started => playback_started'
    /\ playback_started => input_sample_rate_hz' = input_sample_rate_hz
    /\ (play_pc' = "setup" /\ play_pc # "setup")
          => ~playback_started /\ play_pc = "none" /\ hist.produced = 0
    /\ playback_started' # playback_started => play_pc' = "setup"
C36_StartedOnceFixedRate ==
    []C36_RateOfFirstPacket /\ [][C36_StartStep]_vars

\* C36 witness: the first packet said 10 Hz, the second 40 Hz; the stream
\* plays and the second packet was resampled from 10 Hz (its two samples
\* gave four at the device's 20 Hz).
C36_SecondRateIgnored ==
    /\ Len(hist.raw) >= 2
    /\ hist.raw[1].sample_rate = 10
    /\ hist.raw[2].sample_rate = 40
    /\ stream = "playing"
    /\ input_sample_rate_hz = 10
    /\ hist.last_popped = 2
    /\ cb_pc = "refill"
    /\ Len(audio_buffer) >= 4
    /\ audio_buffer[Len(audio_buffer)].pkt = 2
    /\ audio_buffer[Len(audio_buffer) - 3].pkt = 2

\* C37: receiver cleanup always completes.  Main waits in a join only with
\* the shutdown signal set; with the signal set the next step of each
\* polling thread (playback thread, SIGTERM thread, message task) is the one
\* that leaves its loop, and while the process lives that step can be taken;
\* a main that has returned Ok has left both joins behind with the playback
\* thread and the SIGTERM thread ended; and a main that has left its event
\* loop reaches its end, every join it waits in having returned (the error
\* return of pipeline.set_state(Null) included).
C37_SignalBeforeJoin ==
    main_pc \in {"join_playback", "stop_pipeline", "join_signal"}
        => shutdown_signal = TRUE
C37_ObservedAtNextPoll ==
    shutdown_signal =>
        /\ play_pc = "poll" => play_pc' \in {"poll", "drop"}
        /\ sig_pc = "check" => sig_pc' \in {"check", "exited"}
        /\ gst_pc = "poll" => gst_pc' \in {"poll", "exited"}
C37_PollCanLeave ==
    shutdown_signal /\ Alive =>
        /\ play_pc = "poll" => ENABLED PlaybackPoll
        /\ sig_pc = "check" => ENABLED <<SigCheck>>_vars
        /\ gst_pc = "poll" => ENABLED <<GstPoll>>_vars
C37_JoinedThreadsEnded ==
    main_pc = "stopped"
        => /\ play_pc \in {"none", "returned", "failed"}
           /\ sig_pc = "exited"
C37_CleanupCompletes ==
    /\ []C37_SignalBeforeJoin
    /\ [][C37_ObservedAtNextPoll]_vars
    /\ []C37_PollCanLeave
    /\ []C37_JoinedThreadsEnded
    /\ (main_pc = "cleanup") ~> (main_pc \in {"stopped", "failed"})

\* C37 witness: the receiver's main has returned from cleanup after its
\* playback thread, which had played audio, its SIGTERM thread and its
\* message task all left on the signal.
C37_AllThreadsLeftOnSignal ==
    /\ deployment = "receiver"
    /\ main_pc = "stopped"
    /\ play_pc = "returned"
    /\ stream = "released"
    /\ sig_pc = "exited"
    /\ gst_pc = "exited"
    /\ sigint_pc = "armed"
    /\ hist.callbacks > 0

\* C38: the resampler never reads outside its input.  For a packet with at
\* least one sample and a source rate different from the device rate, output
\* k of a refill (k from 0) is taken at source position k * Rs / Rd: with i
\* the floor of that position, it lies between input[i] and input[i+1],
\* an index past the end standing for the last sample; it is input[i] when
\* the position is a whole number, the last sample when i is the last index
\* or beyond, and never outside the range of the packet's samples.
C38_Within(x, a, b) == Min(a, b) <= x /\ x <= Max(a, b)
C38_RefillStep ==
    (hist'.popped = hist.popped + 1 /\ input_sample_rate_hz # device_rate_hz)
    => \E src \in {DecodeS16Mono(Head(audio_queue).data)} :
       \E out \in {AppendedValues(audio_buffer, audio_buffer')} :
          IF src = <<>> THEN out = <<>>
          ELSE \A k \in 1..Len(out) :
                 \E i \in {((k - 1) * input_sample_rate_hz) \div device_rate_hz} :
                    /\ C38_Within(out[k], src[Min(i, Len(src) - 1) + 1],
                                  src[Min(i + 1, Len(src) - 1) + 1])
                    /\ ((k - 1) * input_sample_rate_hz) % device_rate_hz = 0
                         => out[k] = src[Min(i, Len(src) - 1) + 1]
                    /\ i + 1 >= Len(src) => out[k] = src[Len(src)]
                    /\ \E lo, hi \in 1..Len(src) :
                          src[lo] <= out[k] /\ out[k] <= src[hi]
C38_ReadsInsideInput == [][C38_RefillStep]_vars

\* C38 witness: a packet of more than two samples was resampled from half
\* the device rate into the empty ring buffer: the second output lies
\* strictly between the first two samples of the packet, and the last two
\* outputs are both the packet's last sample, which is not zero.
C38_LastSampleHeld ==
    /\ cb_pc = "refill"
    /\ hist.popped = 1
    /\ 2 * input_sample_rate_hz = device_rate_hz
    /\ Len(audio_buffer) > 4
    /\ audio_buffer[1].v < audio_buffer[2].v
    /\ audio_buffer[2].v < audio_buffer[3].v
    /\ audio_buffer[Len(audio_buffer)].v = audio_buffer[Len(audio_buffer) - 1].v
    /\ audio_buffer[Len(audio_buffer)].v # 0
    /\ audio_buffer[Len(audio_buffer)].v # audio_buffer[Len(audio_buffer) - 2].v

\* C39: in the single-slot receiver each received buffer is forwarded on at
\* most one tick.  The slot holds at most one buffer; a store puts the new
\* buffer in the slot whatever was there; a tick that finds a buffer sends
\* that buffer, which is the one stored last, and leaves the slot empty; a
\* tick that finds the slot empty sends nothing; the buffers sent are sent
\* in the order of their arrival, none of them twice.
C39_SlotState ==
    /\ Len(pending_audio) <= 1
    /\ pending_audio # <<>>
         => pending_audio[1] = ProducedPacket(hist.pushed_pending)
    /\ Len(hist.forwarded) = hist.sends
    /\ \A i \in 1..Len(hist.forwarded) :
         /\ hist.forwarded[i] \in 1..hist.pushed_pending
         /\ i > 1 => hist.forwarded[i - 1] < hist.forwarded[i]
C39_StoreStep ==
    hist'.pushed_pending = hist.pushed_pending + 1
        => /\ pending_audio' = <<prod_data>>
           /\ prod_data = ProducedPacket(hist'.pushed_pending)
           /\ sent' = sent /\ hist'.sends = hist.sends
C39_TickStep ==
    (tick_pc = "drain" /\ tick_pc' = "idle")
        => /\ pending_audio' = <<>>
           /\ IF pending_audio = <<>>
              THEN sent' = sent /\ hist'.sends = hist.sends
                   /\ hist'.forwarded = hist.forwarded
              ELSE /\ sent' = ProducedPacket(hist.pushed_pending).data
                   /\ hist'.sends = hist.sends + 1
                   /\ hist'.forwarded =
                         Append(hist.forwarded, hist.pushed_pending)
C39_OtherStep ==
    (hist'.pushed_pending = hist.pushed_pending /\ tick_pc # "drain")
        => /\ pending_audio' = pending_audio
           /\ sent' = sent /\ hist'.sends = hist.sends
C39_ForwardedAtMostOnce ==
    []C39_SlotState /\ [][C39_StoreStep /\ C39_TickStep /\ C39_OtherStep]_vars

\* C39 witness: two different buffers arrived; the second replaced the
\* first before any tick, the first tick sent the second buffer, the
\* second tick found the slot empty and sent nothing, and the first
\* buffer was never sent.
C39_ReplacedBufferNeverSent ==
    /\ deployment = "slot"
    /\ hist.pushed_pending = 2
    /\ hist.forwarded = <<2>>
    /\ hist.ticks = 2
    /\ hist.sends = 1
    /\ tick_pc = "idle"
    /\ pending_audio = <<>>
    /\ ProducedPacket(1).data # ProducedPacket(2).data
    /\ sent = ProducedPacket(2).data
====
